---- MODULE Spec2Model ----
(***************************************************************************)
(* Station reconciliation of the BMSLA and Sonelgaz bulletin chains:       *)
(* 4-traitement_obs.py (Sonelgaz only), 5-traitement_obs_min_max.py,       *)
(* 6-create_tables.py, 7-create_word.py and 8-send_MSG.py.                 *)
(*                                                                         *)
(* Temperatures are integers in tenths of a degree (96 is 9.6).  A cell of *)
(* a table is a record [k, v]: k = "num" with the value in v, k = "nan"    *)
(* for a pandas NaN, k = "slash" for the placeholder string "/".           *)
(* A DataFrame is [cols |-> set of column names, rows |-> sequence of      *)
(* [Station |-> name, vals |-> [cols -> cell]]].                           *)
(*                                                                         *)
(* The 27 (BMSLA) and 47 (Sonelgaz) station names are abstracted to the    *)
(* names A, B, C; Ax and Bx are the names the BUFR reports may carry for   *)
(* A and B (the keys of station_mapping).                                  *)
(***************************************************************************)
EXTENDS Integers, Sequences, FiniteSets, TLC

\* Total number of report rows over all BUFR observation files of one run.
MaxRows == 2

Num(x) == [k |-> "num", v |-> x]
NaN == [k |-> "nan", v |-> 0]
Slash == [k |-> "slash", v |-> 0]

\* Lexicographic order of the station names (Python's sorted / pandas sort).
NameOrder == <<"A", "Ax", "B", "Bx", "C">>

Idx(n) == CHOOSE i \in 1..Len(NameOrder) : NameOrder[i] = n

Range(s) == {s[i] : i \in 1..Len(s)}

\* sorted(set(...)) over station names
Sorted(S) == SelectSeq(NameOrder, LAMBDA n : n \in S)

RECURSIVE Flatten(_)
Flatten(ss) == IF ss = <<>> THEN <<>> ELSE Head(ss) \o Flatten(Tail(ss))

EmptyDF(cols) == [cols |-> cols, rows |-> <<>>]

----------------------------------------------------------------------------
(* Program constants *)

\* BMSLA stations_list (5-traitement_obs_min_max.py and 6-create_tables.py)
stations_list_BMSLA == <<"A", "B", "C">>

\* BMSLA station_mapping: BUFR name -> canonical name
station_mapping_BMSLA == [n \in {"Ax"} |-> "A"]

\* Sonelgaz regions of 4-traitement_obs.py / 5-traitement_obs_min_max.py:
\* B is listed under its BUFR name (as ORAN-SENIA is), A under its canonical
\* name (as MSILA is).
regions_obs == [Ouest |-> <<"Bx", "A">>, Sud |-> <<"C">>]

\* Sonelgaz regions of 6-create_tables.py (canonical names)
regions == [Ouest |-> <<"B", "A">>, Sud |-> <<"C">>]

RegionNames == <<"Ouest", "Sud">>

\* Sonelgaz station_mapping
station_mapping_Sonelgaz == [n \in {"Ax", "Bx"} |-> IF n = "Ax" THEN "A" ELSE "B"]

\* stations_list = sorted(set(station for region ... for station in region))
stations_list_Sonelgaz == Sorted(UNION {Range(regions_obs[r]) : r \in DOMAIN regions_obs})

station_mapping(v) == IF v = "BMSLA" THEN station_mapping_BMSLA ELSE station_mapping_Sonelgaz

\* the station list the observation stages merge the BUFR reports into
stations_list(v) == IF v = "BMSLA" THEN stations_list_BMSLA ELSE stations_list_Sonelgaz

\* hourly observation files read by 4-traitement_obs.py (two of the five slots)
times_to_process == <<"t2m_06", "t2m_12">>

----------------------------------------------------------------------------
(* pandas operations *)

\* pd.merge(df, right, on="stationOrSiteName", how="left") where right has
\* the single value column col: every left row, in order, once per matching
\* right row (in right order), or once with NaN when nothing matches.
MergeLeftRow(row, right, col) ==
    LET m == SelectSeq(right, LAMBDA r : r.Station = row.Station)
        ext(x) == [Station |-> row.Station,
                   vals |-> [c \in (DOMAIN row.vals) \cup {col} |->
                               IF c = col THEN x ELSE row.vals[c]]]
    IN  IF m = <<>> THEN <<ext(NaN)>>
        ELSE [i \in 1..Len(m) |-> ext(m[i].v)]

MergeLeft(df, right, col) ==
    [cols |-> df.cols \cup {col},
     rows |-> Flatten([i \in 1..Len(df.rows) |-> MergeLeftRow(df.rows[i], right, col)])]

\* DataFrame.drop_duplicates(): keep the first of identical rows
DropDuplicates(df) ==
    LET keep == {i \in 1..Len(df.rows) : \A j \in 1..(i-1) : df.rows[j] # df.rows[i]}
        F[i \in 0..Len(df.rows)] ==
            IF i = 0 THEN <<>>
            ELSE IF i \in keep THEN Append(F[i-1], df.rows[i]) ELSE F[i-1]
    IN  [cols |-> df.cols, rows |-> F[Len(df.rows)]]

\* df[df["stationOrSiteName"].isin(names)]
IsIn(df, names) ==
    [cols |-> df.cols, rows |-> SelectSeq(df.rows, LAMBDA r : r.Station \in names)]

\* df.isna().sum(axis=1) of one row
NaNCount(row) == Cardinality({c \in DOMAIN row.vals : row.vals[c] = NaN})

\* idxmin taken as the first row of the station, whatever its NaN count
IdxFirst(rows, s) ==
    LET G == {i \in 1..Len(rows) : rows[i].Station = s}
    IN  CHOOSE i \in G : \A j \in G : i <= j

\* idxmin taken as the last of the rows with the minimal NaN count
IdxMinLast(rows, s) ==
    LET G == {i \in 1..Len(rows) : rows[i].Station = s}
        best == {i \in G : \A j \in G : NaNCount(rows[i]) <= NaNCount(rows[j])}
    IN  CHOOSE i \in best : \A j \in best : i >= j

\* Series.groupby(station).idxmin() for one station: the position of the
\* first row of the station that attains the minimal NaN count.
IdxMin(rows, s) ==
    LET G == {i \in 1..Len(rows) : rows[i].Station = s}
        best == {i \in G : \A j \in G : NaNCount(rows[i]) <= NaNCount(rows[j])}
    IN  CHOOSE i \in best : \A j \in best : i <= j

\* filtered_df.loc[filtered_df.isna().sum(axis=1).groupby(...).idxmin()]:
\* one row per station, groups in sorted key order.
SelectMinNaN(df) ==
    LET keys == Sorted({df.rows[i].Station : i \in 1..Len(df.rows)})
    IN  [cols |-> df.cols,
         rows |-> [g \in 1..Len(keys) |-> df.rows[IdxMin(df.rows, keys[g])]]]

\* Series.replace(mapping): names that are keys are substituted, the others
\* pass through unchanged.
Replace(mapping, n) == IF n \in DOMAIN mapping THEN mapping[n] ELSE n

ReplaceStations(df, mapping) ==
    [cols |-> df.cols,
     rows |-> [i \in 1..Len(df.rows) |->
                 [Station |-> Replace(mapping, df.rows[i].Station),
                  vals |-> df.rows[i].vals]]]

\* df[[...]] raises KeyError when a requested column is not in the frame
HasColumns(df, wanted) == wanted \subseteq df.cols

\* df[[...]].rename(columns=ren): ren maps every selected column to its new name
SelectRename(df, ren) ==
    LET new == {ren[c] : c \in DOMAIN ren}
        old(n) == CHOOSE c \in DOMAIN ren : ren[c] = n
    IN  [cols |-> new,
         rows |-> [i \in 1..Len(df.rows) |->
                     [Station |-> df.rows[i].Station,
                      vals |-> [n \in new |-> df.rows[i].vals[old(n)]]]]]

\* the fraction is cut off instead of rounded
Truncate0(x) == IF x >= 0 THEN 10 * (x \div 10) ELSE 0 - 10 * ((0 - x) \div 10)

\* numpy rounding of one value to 0 decimals (round half to even), in tenths
Round0(x) ==
    LET q == x \div 10
        r == x % 10
    IN  IF r < 5 THEN 10 * q
        ELSE IF r > 5 THEN 10 * (q + 1)
        ELSE IF q % 2 = 0 THEN 10 * q ELSE 10 * (q + 1)

RoundCell(c) == IF c.k = "num" THEN Num(Round0(c.v)) ELSE c

\* DataFrame.round(0)
Round(df) ==
    [cols |-> df.cols,
     rows |-> [i \in 1..Len(df.rows) |->
                 [Station |-> df.rows[i].Station,
                  vals |-> [c \in df.cols |-> RoundCell(df.rows[i].vals[c])]]]]

StationsOf(df) == {df.rows[i].Station : i \in 1..Len(df.rows)}

RowsOf(df, s) == SelectSeq(df.rows, LAMBDA r : r.Station = s)

\* pd.merge(left, right, on="Station", how="outer"): keys of both sides in
\* sorted order; per key the product of the left and the right rows, a side
\* without the key contributing NaN.
MergeOuterKey(left, right, s) ==
    LET L == RowsOf(left, s)
        R == RowsOf(right, s)
        cols == left.cols \cup right.cols
        join(l, r) == [Station |-> s,
                       vals |-> [c \in cols |->
                                   IF c \in left.cols
                                   THEN (IF l = 0 THEN NaN ELSE L[l].vals[c])
                                   ELSE (IF r = 0 THEN NaN ELSE R[r].vals[c])]]
    IN  IF L = <<>> THEN [r \in 1..Len(R) |-> join(0, r)]
        ELSE IF R = <<>> THEN [l \in 1..Len(L) |-> join(l, 0)]
        ELSE Flatten([l \in 1..Len(L) |-> [r \in 1..Len(R) |-> join(l, r)]])

MergeOuter(left, right) ==
    LET keys == Sorted(StationsOf(left) \cup StationsOf(right))
    IN  [cols |-> left.cols \cup right.cols,
         rows |-> Flatten([g \in 1..Len(keys) |-> MergeOuterKey(left, right, keys[g])])]

\* df.reindex(columns=order): absent columns are created full of NaN
ReindexColumns(df, order) ==
    [cols |-> order,
     rows |-> [i \in 1..Len(df.rows) |->
                 [Station |-> df.rows[i].Station,
                  vals |-> [c \in order |->
                              IF c \in df.cols THEN df.rows[i].vals[c] ELSE NaN]]]]

\* fillna left out: NaN stays NaN
FillNaNone(df) == df

\* df.fillna("/")
FillNa(df) ==
    [cols |-> df.cols,
     rows |-> [i \in 1..Len(df.rows) |->
                 [Station |-> df.rows[i].Station,
                  vals |-> [c \in df.cols |->
                              IF df.rows[i].vals[c] = NaN THEN Slash
                              ELSE df.rows[i].vals[c]]]]]

\* reindex raises ValueError("cannot reindex on an axis with duplicate labels")
HasDuplicateLabels(df) ==
    \E i, j \in 1..Len(df.rows) : i # j /\ df.rows[i].Station = df.rows[j].Station

\* a filter in place of the reindex: listed stations that df holds, in list order
ReindexStationsPresent(df, stations) ==
    [cols |-> df.cols,
     rows |-> Flatten([i \in 1..Len(stations) |-> RowsOf(df, stations[i])])]

\* df.set_index("Station").reindex(stations).reset_index(): one row per
\* listed station in list order, NaN where the station is not in df.
ReindexStations(df, stations) ==
    [cols |-> df.cols,
     rows |-> [i \in 1..Len(stations) |->
                 IF stations[i] \in StationsOf(df)
                 THEN RowsOf(df, stations[i])[1]
                 ELSE [Station |-> stations[i], vals |-> [c \in df.cols |-> NaN]]]]

\* pd.Categorical(..., categories=stations, ordered=True) + sort_values
SortByCategory(df, stations) ==
    [cols |-> df.cols,
     rows |-> Flatten([i \in 1..Len(stations) |-> RowsOf(df, stations[i])])]

\* the trailing fillna("/") left out
FinalTableNoFill(full, stations) ==
    SortByCategory(ReindexStations(full, stations), stations)

\* full_table.set_index("Station").reindex(stations).reset_index().fillna("/")
\* followed by the categorical sort
FinalTable(full, stations) ==
    SortByCategory(FillNa(ReindexStations(full, stations)), stations)

----------------------------------------------------------------------------
(* Inputs of one run *)

Report(n, x) == [Station |-> n, v |-> x]

\* rows read_and_process_bufr_temperature may return for each BUFR file
BufrRows ==
    [tmin   |-> {Report("A", Num(94)), Report("A", Num(80)), Report("A", NaN),
                 Report("Ax", Num(90)), Report("Bx", Num(70))},
     tmax   |-> {Report("A", Num(215)), Report("A", NaN),
                 Report("Ax", Num(210)), Report("Bx", Num(180))},
     t2m_06 |-> {Report("A", Num(120)), Report("A", NaN), Report("Bx", Num(135))},
     t2m_12 |-> {Report("A", Num(140)), Report("Bx", Num(150))}]

BufrFiles == {"tmin", "tmax", "t2m_06", "t2m_12"}

Tables(S, n) == UNION {[1..m -> S] : m \in 0..n}

\* a BUFR file is missing, unreadable (the reader returns None) or read
Missing == [st |-> "missing", rows |-> <<>>]
Unreadable == [st |-> "none", rows |-> <<>>]
Read(t) == [st |-> "ok", rows |-> t]

\* station_arpege_{date}.csv as written by 3-create_forecast_table.py:
\* one row per station of the forecast station file.
t2m == [A |-> [t2m_min |-> Num(100), t2m_max |-> Num(200)],
        B |-> [t2m_min |-> Num(50),  t2m_max |-> Num(150)],
        C |-> [t2m_min |-> Num(96),  t2m_max |-> Num(245)]]

ArpegeDF(S) ==
    LET names == Sorted(S)
    IN  [cols |-> {"t2m_min", "t2m_max"},
         rows |-> [i \in 1..Len(names) |-> [Station |-> names[i], vals |-> t2m[names[i]]]]]

ForecastStationSets == {{"A", "B"}, {"A", "B", "C"}, {"B", "C"}}

NoFile == [exists |-> FALSE, df |-> EmptyDF({})]
File(df) == [exists |-> TRUE, df |-> df]

XlsxFiles == {"all_stations", "Ouest", "Sud"}

----------------------------------------------------------------------------
VARIABLES
    variant,        \* which chain runs: "BMSLA" or "Sonelgaz"
    pc,             \* the script of the chain that runs next
    failed,         \* the script that terminated with an error, or "none"
    bufr,           \* the BUFR observation files of the run
    arpege_csv,     \* outputs/arpege/station_arpege_{date}.csv
    obs_csv,        \* outputs/observations/observations_{date}.csv
    minmax_csv,     \* outputs/observations/tmin_tmax_{date}.csv
    filtered_df,    \* 5-traitement_obs_min_max.py: frame before the NaN selection
    df_cleaned,     \* 5-traitement_obs_min_max.py: frame after the NaN selection
    t_demain_arp,   \* 6-create_tables.py: processed forecast table
    t_obs,          \* 6-create_tables.py: processed hourly observations
    t_obs_minmax,   \* 6-create_tables.py: processed tmin/tmax observations
    full_table,     \* 6-create_tables.py: merged table
    xlsx,           \* outputs/tab_reg/*.xlsx
    bulletin,       \* the Word bulletin of the day exists
    emailSent,      \* the bulletin was emailed
    joined          \* observation station names as they were when joined on

\* the processes of one run and what they leave behind
VARIABLES
    run,            \* the program, the script the operator starts, its arguments, the fault of the day
    stack,          \* the scripts that are running, the one started last at the end
    exitCode,       \* script -> exit code, NotStarted or Running
    startedBy,      \* script -> the script that started it, "operator" or "nobody"
    critical,       \* the scripts that hit a critical failure
    ownLog,         \* the scripts that created a log file of their own
    worked,         \* the scripts that got past their argument handling
    todo,           \* the children the orchestrator still has to run
    docs,           \* the documents of the day on disk
    mailed,         \* the attachments that were emailed
    transfers       \* the number of FTP/SFTP transfers attempted

\* 3-create_forecast_table.py: the reduction over the lead times
VARIABLES
    t2m_all_times_0_24h,    \* station -> samples over the lead times
    t2m_min_0_24h,          \* station -> minimum, <<>> before the reduction
    t2m_max_0_24h,          \* station -> maximum, <<>> before the reduction
    minmax_error            \* the reduction raised and the error was logged

\* BQCP24h: the cumulative precipitation workbook
VARIABLES
    agricole_template,      \* templates/agricole.xlsx: station -> cumulative value, or absent
    agricole_out,           \* agricole_{MM}{DD}0600.xlsx of the run, or absent
    df_24h_precip,          \* the 24-hour precipitation decoded from the BUFR of the run
    reset_cumul,            \* the run is on 1 September
    cumul_pc                \* what runs next: "synop" or "move"

\* the tmp/ directory of a chain over the days
VARIABLES
    tmp_chain,              \* the chain the directory belongs to: "BMSLA" or "Sonelgaz"
    tmp_day,                \* the day of the run
    tmp_pc,                 \* the script of the chain that runs next, or ran last
    tmp_exit,               \* "running", "crashed" or "finished"
    tmp_cleaned,            \* clean_directory ran on tmp/ in this run
    tmp_files               \* the files in tmp/: <<day, kind>>

\* 6-create_tables.py: the alias map on a station column
VARIABLES
    alias_variant,          \* the chain whose map is applied
    alias_in,               \* the stationOrSiteName column as loaded
    alias_col,              \* the column after the passes so far
    alias_passes            \* the number of times replace(station_mapping) was applied

\* sonelgaz: the regional workbooks of outputs/tab_reg over the days
VARIABLES
    reg_day,                \* the day of the run
    reg_pc,                 \* the script that runs next, or "over"
    reg_written,            \* region -> the day its workbook on disk was written, 0 when there is none
    reg_read                \* region -> the day the workbook 7-create_word.py loaded was written, 0 when not loaded

\* BQCP24h: the cumulative workbook over the days of a season
VARIABLES
    season_today,           \* the date of the runs, month and day
    season_day,             \* the number of days followed so far
    season_start,           \* templates/agricole.xlsx as it was when the day began
    season_runs06,          \* the number of times Bulletin.py was run today
    season_runs18,          \* the number of times Bulletin18.py was run today
    season_last             \* what the last run did

\* sonelgaz/scr/1-get_arpege.py: the ARPEGE listing and what is fetched from it
VARIABLES
    fetch_listing,          \* the files list_remote_files returned
    fetch_fault,            \* "none", or "list_error" when the listing raised
    fetch_requested,        \* the files handed to fetch_remote_files
    fetch_ok,               \* the files present and not empty after the download
    fetch_launched,         \* the scripts 1-get_arpege.py started
    fetch_exit              \* "running", or the exit code of 1-get_arpege.py

tableVars == <<variant, pc, failed, bufr, arpege_csv, obs_csv, minmax_csv, filtered_df,
               df_cleaned, t_demain_arp, t_obs, t_obs_minmax, full_table, xlsx,
               bulletin, emailSent, joined>>

chainVars == <<run, stack, exitCode, startedBy, critical, ownLog, worked, todo, docs,
               mailed, transfers>>

minmaxVars == <<t2m_all_times_0_24h, t2m_min_0_24h, t2m_max_0_24h, minmax_error>>

cumulVars == <<agricole_template, agricole_out, df_24h_precip, reset_cumul, cumul_pc>>

tmpVars == <<tmp_chain, tmp_day, tmp_pc, tmp_exit, tmp_cleaned, tmp_files>>

aliasVars == <<alias_variant, alias_in, alias_col, alias_passes>>

regVars == <<reg_day, reg_pc, reg_written, reg_read>>

seasonVars == <<season_today, season_day, season_start, season_runs06, season_runs18,
                season_last>>

fetchVars == <<fetch_listing, fetch_fault, fetch_requested, fetch_ok, fetch_launched,
               fetch_exit>>

\* the parts of the repository modelled further down
restVars == <<fetchVars, seasonVars, regVars, aliasVars, tmpVars>>

vars == <<tableVars, chainVars, minmaxVars, cumulVars, restVars>>

\* the variables of the other parts of the repository while one part runs
IdleTables ==
    /\ variant = "BMSLA" /\ pc = "done" /\ failed = "none"
    /\ bufr = <<>> /\ arpege_csv = <<>> /\ obs_csv = <<>> /\ minmax_csv = <<>>
    /\ filtered_df = <<>> /\ df_cleaned = <<>> /\ t_demain_arp = <<>> /\ t_obs = <<>>
    /\ t_obs_minmax = <<>> /\ full_table = <<>> /\ xlsx = <<>>
    /\ bulletin = FALSE /\ emailSent = FALSE /\ joined = {}

IdleChain ==
    /\ run = <<>> /\ stack = <<>> /\ exitCode = <<>> /\ startedBy = <<>>
    /\ critical = {} /\ ownLog = {} /\ worked = {} /\ todo = <<>> /\ docs = {}
    /\ mailed = {} /\ transfers = 0

IdleMinMax ==
    /\ t2m_all_times_0_24h = <<>> /\ t2m_min_0_24h = <<>> /\ t2m_max_0_24h = <<>>
    /\ minmax_error = FALSE

IdleCumul ==
    /\ agricole_template = <<>> /\ agricole_out = <<>> /\ df_24h_precip = <<>>
    /\ reset_cumul = FALSE /\ cumul_pc = "idle"

IdleTmp ==
    /\ tmp_chain = "BMSLA" /\ tmp_day = 0 /\ tmp_pc = "idle" /\ tmp_exit = "idle"
    /\ tmp_cleaned = FALSE /\ tmp_files = {}

IdleAlias ==
    alias_variant = "BMSLA" /\ alias_in = <<>> /\ alias_col = <<>> /\ alias_passes = 0

IdleRegions ==
    reg_day = 0 /\ reg_pc = "idle" /\ reg_written = <<>> /\ reg_read = <<>>

IdleSeason ==
    /\ season_today = <<>> /\ season_day = 0 /\ season_start = <<>>
    /\ season_runs06 = 0 /\ season_runs18 = 0 /\ season_last = "idle"

IdleFetch ==
    /\ fetch_listing = {} /\ fetch_fault = "idle" /\ fetch_requested = {}
    /\ fetch_ok = {} /\ fetch_launched = {} /\ fetch_exit = "idle"

IdleRest == IdleFetch /\ IdleSeason /\ IdleRegions /\ IdleAlias /\ IdleTmp

NoDF == EmptyDF({})

Init ==
    /\ IdleChain /\ IdleMinMax /\ IdleCumul /\ IdleRest
    /\ variant \in {"BMSLA", "Sonelgaz"}
    /\ pc = IF variant = "BMSLA" THEN "s5" ELSE "s4"
    /\ failed = "none"
    /\ \E tmin \in {Missing, Unreadable} \cup {Read(t) : t \in Tables(BufrRows.tmin, MaxRows)} :
       \E tmax \in {Missing, Unreadable} \cup
                   {Read(t) : t \in Tables(BufrRows.tmax, MaxRows - Len(tmin.rows))} :
       \E h06 \in {Missing} \cup
                  {Read(t) : t \in Tables(BufrRows.t2m_06,
                        IF variant = "BMSLA" THEN -1
                        ELSE MaxRows - Len(tmin.rows) - Len(tmax.rows))} :
       \E h12 \in {Missing} \cup
                  {Read(t) : t \in Tables(BufrRows.t2m_12,
                        IF variant = "BMSLA" THEN -1
                        ELSE MaxRows - Len(tmin.rows) - Len(tmax.rows) - Len(h06.rows))} :
          bufr = [tmin |-> tmin, tmax |-> tmax, t2m_06 |-> h06, t2m_12 |-> h12]
    /\ arpege_csv \in {NoFile} \cup {File(ArpegeDF(S)) : S \in ForecastStationSets}
    /\ obs_csv = NoFile
    /\ minmax_csv = NoFile
    /\ filtered_df = NoDF
    /\ df_cleaned = NoDF
    /\ t_demain_arp = NoDF
    /\ t_obs = NoDF
    /\ t_obs_minmax = NoDF
    /\ full_table = NoDF
    /\ xlsx = [f \in XlsxFiles |-> NoFile]
    /\ bulletin = FALSE
    /\ emailSent = FALSE
    /\ joined = {}

\* stations_df = pd.DataFrame({"stationOrSiteName": stations_list})
StationsDF(list) ==
    [cols |-> {}, rows |-> [i \in 1..Len(list) |-> [Station |-> list[i], vals |-> [c \in {} |-> NaN]]]]

\* the loop / the two ifs merging every BUFR file that was found and read
MergeFiles(df, files) ==
    LET F[i \in 0..Len(files)] ==
            IF i = 0 THEN df
            ELSE IF bufr[files[i]].st = "ok"
                 THEN MergeLeft(F[i-1], bufr[files[i]].rows, files[i])
                 ELSE F[i-1]
    IN  F[Len(files)]

\* select_existing_columns(df, wanted): the wanted columns the frame has
select_existing_columns(df, wanted) ==
    [cols |-> df.cols \cap wanted,
     rows |-> [i \in 1..Len(df.rows) |->
                 [Station |-> df.rows[i].Station,
                  vals |-> [c \in df.cols \cap wanted |-> df.rows[i].vals[c]]]]]

\* station names of the reports of the files that were merged
MergedNames(files) ==
    UNION {{bufr[f].rows[i].Station : i \in 1..Len(bufr[f].rows)} :
             f \in {g \in files : bufr[g].st = "ok"}}

\* the script logs the failure and goes on to the document stage
Exit1Continue(script) ==
    /\ pc' = "s7"
    /\ UNCHANGED failed

Exit1(script) ==
    /\ pc' = "done"
    /\ failed' = script

----------------------------------------------------------------------------
(* The scripts of the chain *)

\* sonelgaz/scr/4-traitement_obs.py
TraitementObs ==
    /\ UNCHANGED <<chainVars, minmaxVars, cumulVars, restVars>>
    /\ pc = "s4"
    /\ variant = "Sonelgaz"
    /\ LET final_df == MergeFiles(StationsDF(stations_list(variant)), times_to_process)
           out == select_existing_columns(final_df, Range(times_to_process))
       IN  \E saved \in BOOLEAN :
              obs_csv' = IF saved THEN File(out) ELSE obs_csv
    /\ joined' = joined \cup MergedNames(Range(times_to_process))
    /\ pc' = "s5"
    /\ UNCHANGED <<variant, failed, bufr, arpege_csv, minmax_csv, filtered_df, df_cleaned,
                   t_demain_arp, t_obs, t_obs_minmax, full_table, xlsx, bulletin, emailSent>>

\* the frame 5-traitement_obs_min_max.py selects the rows from
FilteredDF(v) ==
    LET merged == MergeFiles(StationsDF(stations_list(v)), <<"tmin", "tmax">>)
        sel == select_existing_columns(merged, {"tmin", "tmax"})
    IN  IsIn(DropDuplicates(sel), Range(stations_list(v)))

\* BMSLA/scr/5-traitement_obs_min_max.py, sonelgaz/scr/5-traitement_obs_min_max.py
TraitementObsMinMax ==
    /\ UNCHANGED <<chainVars, minmaxVars, cumulVars, restVars>>
    /\ pc = "s5"
    /\ IF bufr.tmin.st = "missing" /\ bufr.tmax.st = "missing"
       THEN /\ Exit1("s5")
            /\ UNCHANGED <<filtered_df, df_cleaned, minmax_csv, joined>>
       ELSE LET filtered == FilteredDF(variant)
                cleaned == SelectMinNaN(filtered)
            IN  /\ filtered_df' = filtered
                /\ df_cleaned' = cleaned
                /\ \E saved \in BOOLEAN :
                      minmax_csv' = IF saved THEN File(cleaned) ELSE minmax_csv
                /\ joined' = joined \cup MergedNames({"tmin", "tmax"})
                /\ pc' = "s6"
                /\ UNCHANGED failed
    /\ UNCHANGED <<variant, bufr, arpege_csv, obs_csv, t_demain_arp, t_obs, t_obs_minmax,
                   full_table, xlsx, bulletin, emailSent>>

arpege_rename == [t2m_min |-> "prev_min", t2m_max |-> "prev_max"]
minmax_rename == [tmin |-> "tmin_obs", tmax |-> "tmax_obs"]
obs_rename == [t2m_06 |-> "obs_06", t2m_12 |-> "obs_12"]

Renamed(ren) == {ren[c] : c \in DOMAIN ren}

\* arpege[[...]].rename(...).round(0)
ProcessArpege(df) == Round(SelectRename(df, arpege_rename))

\* obs[...].replace(station_mapping); obs[[...]].rename(...).round(0)
ProcessObs(df, ren, mapping) == Round(SelectRename(ReplaceStations(df, mapping), ren))

columns_order_BMSLA == {"tmin_obs", "prev_min", "tmax_obs", "prev_max"}

\* full_table = pd.merge(...).reindex(columns=columns_order).fillna("/")
FullTableBMSLA(arp, minmax) ==
    FillNa(ReindexColumns(MergeOuter(arp, minmax), columns_order_BMSLA))

\* BMSLA/scr/6-create_tables.py
CreateTablesBMSLA ==
    /\ UNCHANGED <<chainVars, minmaxVars, cumulVars, restVars>>
    /\ pc = "s6"
    /\ variant = "BMSLA"
    /\ IF \/ ~arpege_csv.exists \/ arpege_csv.df.rows = <<>>
          \/ ~minmax_csv.exists \/ minmax_csv.df.rows = <<>>
       THEN /\ Exit1("s6")
            /\ UNCHANGED <<t_demain_arp, t_obs_minmax, full_table, xlsx, joined>>
       ELSE LET arp == ProcessArpege(arpege_csv.df)
            IN  /\ t_demain_arp' = arp
                /\ IF ~HasColumns(minmax_csv.df, DOMAIN minmax_rename)
                   THEN /\ Exit1("s6")
                        /\ UNCHANGED <<t_obs_minmax, full_table, xlsx, joined>>
                   ELSE LET minmax == ProcessObs(minmax_csv.df, minmax_rename,
                                                 station_mapping(variant))
                            full == FullTableBMSLA(arp, minmax)
                        IN  /\ t_obs_minmax' = minmax
                            /\ joined' = joined \cup StationsOf(minmax)
                            /\ full_table' = full
                            /\ IF HasDuplicateLabels(full)
                               THEN /\ Exit1("s6")
                                    /\ UNCHANGED xlsx
                               ELSE /\ xlsx' = [xlsx EXCEPT !["all_stations"] =
                                                  File(FinalTable(full, stations_list_BMSLA))]
                                    /\ pc' = "s7"
                                    /\ UNCHANGED failed
    /\ UNCHANGED <<variant, bufr, arpege_csv, obs_csv, minmax_csv, filtered_df, df_cleaned,
                   t_obs, bulletin, emailSent>>

columns_order_Sonelgaz == {"tmin_obs", "prev_min", "tmax_obs", "prev_max", "obs_06", "obs_12"}

\* the try/except around the loading of one observation file: any failure
\* (missing file, missing column) yields pd.DataFrame(columns=[...])
LoadObs(csv, ren, mapping) ==
    IF csv.exists /\ HasColumns(csv.df, DOMAIN ren)
    THEN ProcessObs(csv.df, ren, mapping)
    ELSE EmptyDF(Renamed(ren))

\* the two outer merges, reindex(columns=columns_order).fillna("/")
FullTableSonelgaz(arp, obs, minmax) ==
    FillNa(ReindexColumns(MergeOuter(MergeOuter(arp, obs), minmax), columns_order_Sonelgaz))

\* sonelgaz/scr/6-create_tables.py
CreateTablesSonelgaz ==
    /\ UNCHANGED <<chainVars, minmaxVars, cumulVars, restVars>>
    /\ pc = "s6"
    /\ variant = "Sonelgaz"
    /\ IF ~arpege_csv.exists
       THEN /\ Exit1("s6")
            /\ UNCHANGED <<t_demain_arp, t_obs, t_obs_minmax, full_table, xlsx, joined>>
       ELSE LET arp == ProcessArpege(arpege_csv.df)
                obs == LoadObs(obs_csv, obs_rename, station_mapping(variant))
                minmax == LoadObs(minmax_csv, minmax_rename, station_mapping(variant))
                full == FullTableSonelgaz(arp, obs, minmax)
            IN  /\ t_demain_arp' = arp
                /\ t_obs' = obs
                /\ t_obs_minmax' = minmax
                /\ joined' = joined \cup StationsOf(obs) \cup StationsOf(minmax)
                /\ full_table' = full
                /\ xlsx' = [f \in XlsxFiles |->
                              IF f \in DOMAIN regions /\ ~HasDuplicateLabels(full)
                              THEN File(FinalTable(full, regions[f]))
                              ELSE xlsx[f]]
                /\ pc' = "s7"
                /\ UNCHANGED failed
    /\ UNCHANGED <<variant, bufr, arpege_csv, obs_csv, minmax_csv, filtered_df, df_cleaned,
                   bulletin, emailSent>>

\* the workbooks 7-create_word.py loads
Workbooks(v) == IF v = "BMSLA" THEN {"all_stations"} ELSE DOMAIN regions

\* BMSLA/scr/7-create_word.py, sonelgaz/scr/7-create_word.py
CreateWord ==
    /\ UNCHANGED <<chainVars, minmaxVars, cumulVars, restVars>>
    /\ pc = "s7"
    /\ IF \A f \in Workbooks(variant) : xlsx[f].exists
       THEN /\ bulletin' = TRUE
            /\ pc' = "s8"
            /\ UNCHANGED failed
       ELSE /\ Exit1("s7")
            /\ UNCHANGED bulletin
    /\ UNCHANGED <<variant, bufr, arpege_csv, obs_csv, minmax_csv, filtered_df, df_cleaned,
                   t_demain_arp, t_obs, t_obs_minmax, full_table, xlsx, emailSent, joined>>

\* BMSLA/scr/8-send_MSG.py, sonelgaz/scr/8-send_MSG.py
SendMsg ==
    /\ UNCHANGED <<chainVars, minmaxVars, cumulVars, restVars>>
    /\ pc = "s8"
    /\ IF bulletin
       THEN /\ emailSent' = TRUE
            /\ pc' = "done"
            /\ UNCHANGED failed
       ELSE /\ UNCHANGED emailSent
            /\ IF variant = "BMSLA" THEN Exit1("s8")
               ELSE pc' = "done" /\ UNCHANGED failed
    /\ UNCHANGED <<variant, bufr, arpege_csv, obs_csv, minmax_csv, filtered_df, df_cleaned,
                   t_demain_arp, t_obs, t_obs_minmax, full_table, xlsx, bulletin, joined>>

Next ==
    \/ TraitementObs
    \/ TraitementObsMinMax
    \/ CreateTablesBMSLA
    \/ CreateTablesSonelgaz
    \/ CreateWord
    \/ SendMsg

Spec == Init /\ [][Next]_vars

TypeOK ==
    /\ pc \in {"s4", "s5", "s6", "s7", "s8", "done"}
    /\ failed \in {"none", "s5", "s6", "s7", "s8"}

----------------------------------------------------------------------------
(* Reconciliation output *)

\* the station list a workbook is reindexed to
ListOf(f) == IF f = "all_stations" THEN stations_list_BMSLA ELSE regions[f]

Emitted == {f \in XlsxFiles : xlsx[f].exists}

\* C1: every table written by 6-create_tables.py has exactly len(L) rows for
\* its station list L, and row i is the row of station L[i].
C1_RowsMatchStationList ==
    \A f \in Emitted :
        /\ Len(xlsx[f].df.rows) = Len(ListOf(f))
        /\ \A i \in 1..Len(ListOf(f)) : xlsx[f].df.rows[i].Station = ListOf(f)[i]

\* tables were written although the merged table lacks a listed station and
\* holds stations that are not listed, one of them for the list <<"B", "A">>
\* that is not in the key order of the merge
C1_Witness ==
    /\ \E f \in Emitted :
          /\ \E s \in Range(ListOf(f)) : s \notin StationsOf(full_table)
          /\ \E s \in StationsOf(full_table) : s \notin Range(ListOf(f))
    /\ "Ouest" \in Emitted
    /\ {"A", "B"} \subseteq StationsOf(full_table)

\* the BUFR files a chain reads
FilesRead(v) == IF v = "BMSLA" THEN {"tmin", "tmax"} ELSE BufrFiles

\* station s is in no source: not in the forecast table, and no report of
\* any BUFR file carries its name or a name station_mapping maps to it
InNoSource(s) ==
    /\ s \notin StationsOf(arpege_csv.df)
    /\ \A b \in FilesRead(variant) : \A i \in 1..Len(bufr[b].rows) :
          /\ bufr[b].rows[i].Station # s
          /\ Replace(station_mapping(variant), bufr[b].rows[i].Station) # s

\* C2: a listed station that appears in no source has a row in every written
\* table, and every non-key field of that row is "/".
C2_AbsentStationAllSlash ==
    \A f \in Emitted : \A s \in Range(ListOf(f)) :
        InNoSource(s) =>
            /\ xlsx[f].df.cols # {}
            /\ \E i \in 1..Len(xlsx[f].df.rows) : xlsx[f].df.rows[i].Station = s
            /\ \A i \in 1..Len(xlsx[f].df.rows) :
                  xlsx[f].df.rows[i].Station = s =>
                      \A c \in xlsx[f].df.cols : xlsx[f].df.rows[i].vals[c] = Slash

\* a table was written that lists a station of no source next to a station
\* that has forecast values
C2_Witness ==
    \E f \in Emitted :
        /\ \E s \in Range(ListOf(f)) : InNoSource(s)
        /\ \E i \in 1..Len(xlsx[f].df.rows) : xlsx[f].df.rows[i].vals["prev_min"] # Slash

\* C3: no observation station name takes part in a join or a station-name
\* match while it is still a key of the alias map (un-aliased).
C3_AliasBeforeJoin ==
    \A n \in joined : n \notin DOMAIN station_mapping(variant)

\* The scenario of C4: BMSLA list [A, B, C], forecast for A (10, 20) and
\* B (5, 15), one observation reported under the name Ax (tmin 9, tmax 21).
C4_Scenario ==
    /\ variant = "BMSLA"
    /\ arpege_csv = File(ArpegeDF({"A", "B"}))
    /\ bufr.tmin = Read(<<Report("Ax", Num(90))>>)
    /\ bufr.tmax = Read(<<Report("Ax", Num(210))>>)
    /\ minmax_csv.exists

C4_Expected ==
    <<[Station |-> "A", vals |-> [tmin_obs |-> Num(90), prev_min |-> Num(100),
                                  tmax_obs |-> Num(210), prev_max |-> Num(200)]],
      [Station |-> "B", vals |-> [tmin_obs |-> Slash, prev_min |-> Num(50),
                                  tmax_obs |-> Slash, prev_max |-> Num(150)]],
      [Station |-> "C", vals |-> [tmin_obs |-> Slash, prev_min |-> Slash,
                                  tmax_obs |-> Slash, prev_max |-> Slash]]>>

\* C4: in that scenario the chain ends with the table A (forecast and observed
\* values all present), B (forecast values, "/" in the observation fields),
\* C ("/" in every non-key field).
C4_EndToEnd ==
    (C4_Scenario /\ pc = "done") =>
        /\ xlsx["all_stations"].exists
        /\ xlsx["all_stations"].df.rows = C4_Expected

----------------------------------------------------------------------------
(* Deduplication of the observation rows *)

\* positions of the rows of station s in filtered_df
RowsAt(s) == {i \in 1..Len(filtered_df.rows) : filtered_df.rows[i].Station = s}

\* the rows df_cleaned retains for station s
Retained(s) == {df_cleaned.rows[g] : g \in {h \in 1..Len(df_cleaned.rows) :
                                               df_cleaned.rows[h].Station = s}}

\* C5: of two rows of the same station, the one with fewer missing fields is
\* never the one discarded in favour of the other: the row retained for a
\* station is one of its rows, it is the only one retained, and no row of
\* the station has fewer NaN fields than it.
C5_FewestMissingRetained ==
    \A s \in StationsOf(filtered_df) :
        /\ Cardinality(Retained(s)) = 1
        /\ Len(RowsOf(df_cleaned, s)) = 1
        /\ \A r \in Retained(s) :
              /\ \E i \in RowsAt(s) : filtered_df.rows[i] = r
              /\ \A j \in RowsAt(s) : NaNCount(r) <= NaNCount(filtered_df.rows[j])

\* a station has two rows, the later one with fewer NaN fields, and the later
\* one is retained
C5_Witness ==
    \E s \in StationsOf(filtered_df) : \E i, j \in RowsAt(s) :
        /\ i < j
        /\ NaNCount(filtered_df.rows[j]) < NaNCount(filtered_df.rows[i])
        /\ Retained(s) = {filtered_df.rows[j]}

\* C6: when rows of a station tie on their count of missing fields, a later
\* row of the tie is never retained: the retained row is the first, in the
\* original order, of the rows with the fewest missing fields.
C6_TieKeepsFirst ==
    \A s \in StationsOf(filtered_df) : \A i, j \in RowsAt(s) :
        (i < j /\ NaNCount(filtered_df.rows[i]) = NaNCount(filtered_df.rows[j]))
            => filtered_df.rows[j] \notin Retained(s)

\* two rows of a station tie on the minimal count, and the first is retained
C6_Witness ==
    \E s \in StationsOf(filtered_df) : \E i, j \in RowsAt(s) :
        /\ i < j
        /\ NaNCount(filtered_df.rows[i]) = NaNCount(filtered_df.rows[j])
        /\ filtered_df.rows[i] # filtered_df.rows[j]
        /\ Retained(s) = {filtered_df.rows[i]}

\* 6-create_tables.py has built its tables and merged them
Merged == full_table.cols # {}

\* rows of frame df whose station name is s once aliased
AliasedRows(df, s) ==
    {i \in 1..Len(df.rows) : Replace(station_mapping(variant), df.rows[i].Station) = s}

NaNCountIn(df, i) == Cardinality({c \in df.cols : df.rows[i].vals[c] = NaN})

\* table T holds one row per station, the one with the fewest missing fields
\* among the rows of the frame src it was read from
OneBestRowPerStation(T, src) ==
    /\ ~HasDuplicateLabels(T)
    /\ \A i \in 1..Len(T.rows) : \A j \in AliasedRows(src, T.rows[i].Station) :
          NaNCountIn(T, i) <= NaNCountIn(src, j)

\* C7: every observation table entering the outer merge, the hourly table as
\* well as the tmin/tmax table, has at most one row per station, the one
\* with the fewest missing fields among the station's input rows.
C7_ObsTablesDeduplicated ==
    Merged =>
        /\ OneBestRowPerStation(t_obs_minmax, filtered_df)
        /\ (variant = "Sonelgaz" => OneBestRowPerStation(t_obs, obs_csv.df))

\* C8: after the outer merge every station name present in at least one of
\* the merged tables appears in exactly one row of the merged table.
C8_OneRowPerStation ==
    Merged =>
        \A s \in StationsOf(t_demain_arp) \cup StationsOf(t_obs) \cup StationsOf(t_obs_minmax) :
            Len(RowsOf(full_table, s)) = 1

----------------------------------------------------------------------------
(* Missing observation sources *)

HourlyFiles == Range(times_to_process)

\* exactly one of the tmin / tmax BUFR files is missing
PartialMinMax == (bufr.tmin.st = "missing") # (bufr.tmax.st = "missing")

\* some but not all of the hourly BUFR files are missing
PartialHourly ==
    /\ variant = "Sonelgaz"
    /\ \E b \in HourlyFiles : bufr[b].st = "missing"
    /\ \E b \in HourlyFiles : bufr[b].st # "missing"

\* no BUFR file holds two reports of one station
NoDuplicateReports ==
    \A b \in FilesRead(variant) : \A i, j \in 1..Len(bufr[b].rows) :
        i # j => bufr[b].rows[i].Station # bufr[b].rows[j].Station

\* nothing else is wrong with the run: the forecast table is there, every
\* BUFR file found was read, every intermediate CSV was saved, no station
\* reported twice
RestOK ==
    /\ arpege_csv.exists
    /\ \A b \in FilesRead(variant) : bufr[b].st # "none"
    /\ minmax_csv.exists
    /\ variant = "Sonelgaz" => obs_csv.exists
    /\ NoDuplicateReports

\* C9: when some but not all observation sources are missing, the chain runs
\* through table creation, document generation and sending, and no script
\* terminates with an error.
C9_PartialSourcesContinue ==
    (pc = "done" /\ (PartialMinMax \/ PartialHourly) /\ RestOK) =>
        /\ failed = "none"
        /\ bulletin
        /\ emailSent

\* 6-create_tables.py was started
TablesStageRan == pc \in {"s7", "s8"} \/ (pc = "done" /\ failed # "s5")

\* every row of every written table has "/" in the columns cols
AllSlash(cols) ==
    \A f \in Emitted : \A i \in 1..Len(xlsx[f].df.rows) : \A c \in cols :
        xlsx[f].df.rows[i].vals[c] = Slash

----------------------------------------------------------------------------
(* Failure of the forecast source *)

Programs == {"BMSLA", "Sonelgaz", "BQCP24h", "BQRM"}

\* the scripts of a chain, each starting the next as its last step
Chain(prog) ==
    IF prog = "BMSLA"
    THEN <<"1-get_arpege.py", "2-conv.py", "3-create_forecast_table.py",
           "5-traitement_obs_min_max.py", "6-create_tables.py", "7-create_word.py",
           "8-send_MSG.py">>
    ELSE IF prog = "Sonelgaz"
    THEN <<"1-get_arpege.py", "2-conv.py", "3-create_forecast_table.py",
           "4-traitement_obs.py", "5-traitement_obs_min_max.py", "6-create_tables.py",
           "7-create_word.py", "8-send_MSG.py">>
    ELSE <<>>

\* the script that runs the others one after the other
Orchestrator(prog) ==
    IF prog = "BQCP24h" THEN "Bulletin.py" ELSE "BQRM_ref.py"

\* the scripts the orchestrator runs, in its order
Children(prog) ==
    IF prog = "BQCP24h"
    THEN <<"csvtoxlsx.py", "Synop24h.py", "SynoClim.py", "send_MSG.py">>
    ELSE IF prog = "BQRM"
    THEN <<"Arpege_geopotentiel_temperature_plot.py", "Arpege_mslp_plot.py",
           "BufrToXLS_ref.py", "send_MSG.py">>
    ELSE <<>>

IsChain(prog) == prog \in {"BMSLA", "Sonelgaz"}

\* scripts the programs start whose text is not part of the sources
NotInSrc(prog) ==
    IF prog = "Sonelgaz" THEN {"2-conv.py"}
    ELSE IF prog = "BQRM" THEN {"send_MSG.py"}
    ELSE {}

Scripts(prog) ==
    IF IsChain(prog)
    THEN Range(Chain(prog)) \cup (IF prog = "Sonelgaz" THEN {"1-get-aladin.py"} ELSE {})
    ELSE {Orchestrator(prog)} \cup Range(Children(prog))

\* the script a chain script starts once its own work is done
NextScript(prog, s) ==
    IF s = "1-get-aladin.py" THEN "2-conv.py"
    ELSE LET c == Chain(prog)
             i == CHOOSE j \in 1..Len(c) : c[j] = s
         IN  IF i < Len(c) THEN c[i + 1] ELSE "none"

\* the scripts that fetch from the FTP/SFTP server
Fetchers(prog) ==
    IF prog = "BMSLA" THEN {"1-get_arpege.py"}
    ELSE IF prog = "Sonelgaz" THEN {"1-get_arpege.py", "1-get-aladin.py"}
    ELSE {Orchestrator(prog)}

\* the scripts between the fetch and the tables
Stages(prog) ==
    IF prog = "BMSLA"
    THEN {"2-conv.py", "3-create_forecast_table.py", "5-traitement_obs_min_max.py"}
    ELSE IF prog = "Sonelgaz"
    THEN {"2-conv.py", "3-create_forecast_table.py", "4-traitement_obs.py",
          "5-traitement_obs_min_max.py"}
    ELSE {}

Senders(prog) ==
    IF IsChain(prog) THEN {"8-send_MSG.py"} ELSE {"send_MSG.py"}

\* what can go wrong in a script on the day of the run
FaultKinds(prog, s) ==
    IF s \in NotInSrc(prog) THEN {}
    ELSE IF s = "1-get_arpege.py"
    THEN {"list_error", "list_empty", "fetch_error", "some_missing", "all_missing"}
    ELSE IF s = "1-get-aladin.py" THEN {"fetch_error", "all_missing"}
    ELSE IF s = "Bulletin.py" THEN {"fetch_error", "all_missing", "input_missing", "chdir_fail"}
    ELSE IF s = "BQRM_ref.py" THEN {"list_error", "fetch_error", "some_missing", "input_missing"}
    ELSE IF s = "2-conv.py" THEN {"input_missing", "parse_fail"}
    ELSE IF s = "6-create_tables.py"
    THEN {"input_missing"} \cup (IF prog = "Sonelgaz" THEN {"region_error"} ELSE {})
    ELSE IF s = "7-create_word.py" THEN {"input_missing", "no_table", "no_paragraph"}
    ELSE IF s = "8-send_MSG.py" THEN {"input_missing", "smtp_fail"}
    ELSE IF s = "send_MSG.py" THEN {"input_missing", "one_missing", "smtp_fail"}
    ELSE {"input_missing"}

NoFault == [at |-> "none", kind |-> "none"]

Faults(prog) ==
    {NoFault} \cup UNION {{[at |-> s, kind |-> k] : k \in FaultKinds(prog, s)} : s \in Scripts(prog)}

\* the documents a program attaches to its email
Attachments(prog) ==
    IF IsChain(prog) THEN {"Bulletin.docx"}
    ELSE IF prog = "BQCP24h" THEN {"Cumul_table.docx", "SynopClim_precip_table.docx"}
    ELSE {"BQRM.docx"}

\* the document a script saves when it succeeds
Saves(prog, s) ==
    IF s = "7-create_word.py" THEN {"Bulletin.docx"}
    ELSE IF s = "Synop24h.py" THEN {"Cumul_table.docx"}
    ELSE IF s = "SynoClim.py" THEN {"SynopClim_precip_table.docx"}
    ELSE IF s = "BufrToXLS_ref.py" THEN {"BQRM.docx"}
    ELSE {}

\* the order in which the scripts of a program run
RunOrder(prog) ==
    IF IsChain(prog) THEN Chain(prog) ELSE <<Orchestrator(prog)>> \o Children(prog)

\* the documents of the day already on disk when the operator starts at `entry`
DocsBefore(prog, entry) ==
    LET o == RunOrder(prog)
    IN  IF entry \notin Range(o) THEN {}
        ELSE LET i == CHOOSE j \in 1..Len(o) : o[j] = entry
             IN  UNION {Saves(prog, o[j]) : j \in 1..(i - 1)}

\* the documents a fault of the send script keeps from it
Lost(prog, fault) ==
    IF fault.at \notin Senders(prog) THEN {}
    ELSE IF fault.kind = "input_missing" THEN Attachments(prog)
    ELSE IF fault.kind = "one_missing" THEN {"Cumul_table.docx"}
    ELSE {}

NoCodes == [s \in {} |-> 0]

InitChain ==
    /\ IdleTables /\ IdleMinMax /\ IdleCumul /\ IdleRest
    /\ \E prog \in Programs :
       \E entry \in Scripts(prog) \ NotInSrc(prog) :
       \E logArg \in BOOLEAN :
       \E fault \in Faults(prog) :
          /\ run = [prog |-> prog, entry |-> entry, logArg |-> logArg, fault |-> fault]
          /\ stack = <<entry>>
          /\ startedBy = (entry :> "operator")
          /\ docs = DocsBefore(prog, entry) \
                        (IF fault.at = entry THEN Lost(prog, fault) ELSE {})
    /\ exitCode = NoCodes
    /\ critical = {}
    /\ ownLog = {}
    /\ worked = {}
    /\ todo = <<>>
    /\ mailed = {}
    /\ transfers = 0

Top == stack[Len(stack)]

\* the fault of the day strikes script s with kind k
Struck(s, k) == run.fault = [at |-> s, kind |-> k]

\* s has just been started
Fresh(s) ==
    /\ stack # <<>>
    /\ Top = s
    /\ ~\E c \in DOMAIN startedBy : startedBy[c] = s

\* the script s started has come back
Back(s) ==
    /\ stack # <<>>
    /\ Top = s
    /\ \E c \in DOMAIN startedBy : startedBy[c] = s

\* the script a chain script started
LastChild(s) == CHOOSE c \in DOMAIN startedBy : startedBy[c] = s

\* a parent hands its log path to the script it starts; the operator may not
HasLog(s) == startedBy[s] # "operator" \/ run.logArg

\* scripts that take no log path at all and always open their own log
NoParser(prog) ==
    IF prog = "Sonelgaz" THEN {"1-get_arpege.py"}
    ELSE IF prog = "BQCP24h" THEN {"Bulletin.py"}
    ELSE IF prog = "BQRM" THEN {"BQRM_ref.py"}
    ELSE {}

\* only the first script opens its own log, the others all call sys.exit(1)
NoLogPolicyFirstOnly(prog, s) ==
    IF s = Head(RunOrder(prog)) THEN "own_log" ELSE "exit1"

\* what a script does when it is given no shared log path
NoLogPolicy(prog, s) ==
    IF prog = "BMSLA"
    THEN IF s \in {"1-get_arpege.py", "8-send_MSG.py"} THEN "own_log"
         ELSE IF s = "2-conv.py" THEN "exit2"
         ELSE "exit1"
    ELSE IF prog = "Sonelgaz"
    THEN IF s \in {"1-get_arpege.py", "1-get-aladin.py"} THEN "own_log" ELSE "exit2"
    ELSE IF prog = "BQCP24h" THEN "own_log"
    ELSE IF s = "BQRM_ref.py" THEN "own_log" ELSE "exit2"

\* the outcome of the argument handling of s
LogOutcome(s) ==
    IF s \in NoParser(run.prog) THEN "own_log"
    ELSE IF HasLog(s) THEN "shared"
    ELSE NoLogPolicy(run.prog, s)

\* sys.exit(code)
Ends(s, code, crit, mail) ==
    /\ stack' = SubSeq(stack, 1, Len(stack) - 1)
    /\ exitCode' = exitCode @@ (s :> code)
    /\ critical' = IF crit THEN critical \cup {s} ELSE critical
    /\ mailed' = mailed \cup mail
    /\ UNCHANGED startedBy

\* execute_command([sys.executable, child, log path])
Launches(s, child) ==
    /\ stack' = Append(stack, child)
    /\ startedBy' = startedBy @@ (child :> s)
    /\ UNCHANGED <<exitCode, critical, mailed>>

\* s is past its argument handling and has its logger
Begins(s) ==
    /\ Fresh(s)
    /\ LogOutcome(s) \in {"shared", "own_log"}
    /\ worked' = worked \cup {s}
    /\ ownLog' = IF LogOutcome(s) = "own_log" THEN ownLog \cup {s} ELSE ownLog

Others == <<tableVars, minmaxVars, cumulVars, restVars, run>>

\* parser.parse_args() / if not args.shared_log_file: sys.exit(1)
RefuseWithoutLog ==
    \E s \in Scripts(run.prog) :
        /\ Fresh(s)
        /\ LogOutcome(s) \in {"exit1", "exit2"}
        /\ Ends(s, IF LogOutcome(s) = "exit1" THEN 1 ELSE 2, FALSE, {})
        /\ UNCHANGED <<ownLog, worked, todo, docs, transfers, Others>>

\* BMSLA/scr/1-get_arpege.py
GetArpegeBMSLA ==
    LET s == "1-get_arpege.py" IN
    /\ run.prog = "BMSLA"
    /\ Begins(s)
    /\ transfers' = transfers + 1
    /\ IF \E k \in {"list_error", "list_empty", "fetch_error", "all_missing"} : Struck(s, k)
       THEN Ends(s, 1, FALSE, {})
       ELSE Launches(s, "2-conv.py")
    /\ UNCHANGED <<todo, docs, Others>>

\* sonelgaz/scr/1-get_arpege.py
GetArpegeSonelgaz ==
    LET s == "1-get_arpege.py" IN
    /\ run.prog = "Sonelgaz"
    /\ Begins(s)
    /\ transfers' = transfers + 1
    /\ IF Struck(s, "list_empty")
       THEN Launches(s, "1-get-aladin.py")
       ELSE IF \E k \in {"list_error", "fetch_error", "some_missing", "all_missing"} :
                  Struck(s, k)
       THEN Ends(s, 1, FALSE, {})
       ELSE Launches(s, "2-conv.py")
    /\ UNCHANGED <<todo, docs, Others>>

\* sonelgaz/scr/1-get-aladin.py
GetAladin ==
    LET s == "1-get-aladin.py" IN
    /\ run.prog = "Sonelgaz"
    /\ Begins(s)
    /\ transfers' = transfers + 1
    /\ IF Struck(s, "fetch_error")
       THEN Ends(s, 1, FALSE, {})
       ELSE Launches(s, "2-conv.py")
    /\ UNCHANGED <<todo, docs, Others>>

\* 2-conv.py, 3-create_forecast_table.py, 4-traitement_obs.py, 5-traitement_obs_min_max.py
Stage ==
    \E s \in Stages(run.prog) :
        /\ Begins(s)
        /\ IF Struck(s, "input_missing") \/ Struck(s, "parse_fail")
           THEN Ends(s, 1, TRUE, {})
           ELSE Launches(s, NextScript(run.prog, s))
        /\ UNCHANGED <<todo, docs, transfers, Others>>

\* 6-create_tables.py: a region that fails is logged and the loop goes on
CreateTablesStage ==
    LET s == "6-create_tables.py" IN
    /\ IsChain(run.prog)
    /\ Begins(s)
    /\ IF Struck(s, "input_missing")
       THEN Ends(s, 1, TRUE, {})
       ELSE Launches(s, "7-create_word.py")
    /\ UNCHANGED <<todo, docs, transfers, Others>>

\* 7-create_word.py: a paragraph that is not found is a warning, a missing
\* table is critical
CreateWordStage ==
    LET s == "7-create_word.py" IN
    /\ IsChain(run.prog)
    /\ Begins(s)
    /\ IF Struck(s, "input_missing") \/ Struck(s, "no_table")
       THEN /\ Ends(s, 1, TRUE, {})
            /\ UNCHANGED docs
       ELSE /\ docs' = docs \cup Saves(run.prog, s)
            /\ Launches(s, "8-send_MSG.py")
    /\ UNCHANGED <<todo, transfers, Others>>

\* the attachments send time finds on disk
Present(s) == IF run.fault.at = s THEN docs \ Lost(run.prog, run.fault) ELSE docs

\* BMSLA/scr/8-send_MSG.py, sonelgaz/scr/8-send_MSG.py
SendMsgStage ==
    LET s == "8-send_MSG.py" IN
    /\ IsChain(run.prog)
    /\ Begins(s)
    /\ IF "Bulletin.docx" \notin Present(s)
       THEN Ends(s, IF run.prog = "BMSLA" THEN 1 ELSE 0, TRUE, {})
       ELSE IF Struck(s, "smtp_fail")
       THEN Ends(s, IF run.prog = "BMSLA" THEN 1 ELSE 0, FALSE, {})
       ELSE Ends(s, 0, FALSE, {"Bulletin.docx"})
    /\ UNCHANGED <<todo, docs, transfers, Others>>

\* except (subprocess.CalledProcessError, FileNotFoundError): sys.exit(1)
ChainReturn ==
    \E s \in Scripts(run.prog) :
        /\ IsChain(run.prog)
        /\ Back(s)
        /\ Ends(s, IF exitCode[LastChild(s)] = 0 THEN 0 ELSE 1, FALSE, {})
        /\ UNCHANGED <<ownLog, worked, todo, docs, transfers, Others>>

\* BQCP24h/Bulletin.py up to its first child
BulletinMain ==
    LET s == "Bulletin.py"
        ftp_download_successful == ~(Struck(s, "fetch_error") \/ Struck(s, "all_missing"))
        bufr_copy_successful == ~Struck(s, "input_missing")
    IN
    /\ run.prog = "BQCP24h"
    /\ Begins(s)
    /\ transfers' = transfers + 1
    /\ IF Struck(s, "chdir_fail")
       THEN /\ Ends(s, 1, TRUE, {})
            /\ UNCHANGED todo
       ELSE IF ftp_download_successful /\ bufr_copy_successful
       THEN /\ Launches(s, Head(Children(run.prog)))
            /\ todo' = Tail(Children(run.prog))
       ELSE /\ Ends(s, 0, ~bufr_copy_successful, {})
            /\ UNCHANGED todo
    /\ UNCHANGED <<docs, Others>>

\* BQRM-main/scr/BQRM_ref.py up to its first child
BQRMMain ==
    LET s == "BQRM_ref.py" IN
    /\ run.prog = "BQRM"
    /\ Begins(s)
    /\ transfers' = transfers + 1
    /\ IF Struck(s, "list_error") \/ Struck(s, "fetch_error")
       THEN /\ Ends(s, 1, FALSE, {})
            /\ UNCHANGED todo
       ELSE IF Struck(s, "input_missing")
       THEN /\ Ends(s, 1, TRUE, {})
            /\ UNCHANGED todo
       ELSE /\ Launches(s, Head(Children(run.prog)))
            /\ todo' = Tail(Children(run.prog))
    /\ UNCHANGED <<docs, Others>>

\* the scripts an orchestrator runs before the send: csvtoxlsx.py, Synop24h.py,
\* SynoClim.py, Arpege_*_plot.py, BufrToXLS_ref.py
ChildScript ==
    \E s \in Range(Children(run.prog)) \ Senders(run.prog) :
        /\ Begins(s)
        /\ IF Struck(s, "input_missing")
           THEN /\ Ends(s, 1, TRUE, {})
                /\ UNCHANGED docs
           ELSE /\ Ends(s, 0, FALSE, {})
                /\ docs' = docs \cup Saves(run.prog, s)
        /\ UNCHANGED <<todo, transfers, Others>>

\* the send script attaches what it expects without looking at the disk
SendMsgBQCPUnchecked ==
    LET s == "send_MSG.py" IN
    /\ run.prog = "BQCP24h"
    /\ Begins(s)
    /\ IF Struck(s, "smtp_fail")
       THEN Ends(s, 0, FALSE, {})
       ELSE Ends(s, 0, FALSE, Attachments(run.prog))
    /\ UNCHANGED <<todo, docs, transfers, Others>>

\* BQCP24h/send_MSG.py: attachments that are missing are dropped with a warning
SendMsgBQCP ==
    LET s == "send_MSG.py" IN
    /\ run.prog = "BQCP24h"
    /\ Begins(s)
    /\ IF Present(s) \cap Attachments(run.prog) = {}
       THEN Ends(s, 1, TRUE, {})
       ELSE IF Struck(s, "smtp_fail")
       THEN Ends(s, 0, FALSE, {})
       ELSE Ends(s, 0, FALSE, Present(s) \cap Attachments(run.prog))
    /\ UNCHANGED <<todo, docs, transfers, Others>>

\* the send script of BQRM: sends the bulletin when it is there
SendMsgBQRM ==
    LET s == "send_MSG.py" IN
    /\ run.prog = "BQRM"
    /\ Begins(s)
    /\ IF "BQRM.docx" \in docs
       THEN Ends(s, 0, FALSE, {"BQRM.docx"})
       ELSE Ends(s, 1, TRUE, {})
    /\ UNCHANGED <<todo, docs, transfers, Others>>

\* Bulletin.py, BQRM_ref.py: except Exception around each child: log, go on
OrchestratorNext ==
    LET s == Orchestrator(run.prog) IN
    /\ ~IsChain(run.prog)
    /\ Back(s)
    /\ IF todo # <<>>
       THEN /\ Launches(s, Head(todo))
            /\ todo' = Tail(todo)
       ELSE /\ Ends(s, 0, FALSE, {})
            /\ UNCHANGED todo
    /\ UNCHANGED <<ownLog, worked, docs, transfers, Others>>

NextChain ==
    \/ RefuseWithoutLog
    \/ GetArpegeBMSLA
    \/ GetArpegeSonelgaz
    \/ GetAladin
    \/ Stage
    \/ CreateTablesStage
    \/ CreateWordStage
    \/ SendMsgStage
    \/ ChainReturn
    \/ BulletinMain
    \/ BQRMMain
    \/ ChildScript
    \/ SendMsgBQCP
    \/ SendMsgBQRM
    \/ OrchestratorNext

SpecChain == InitChain /\ [][NextChain]_vars

\* the run is over
RunOver == stack = <<>>

TypeOKChain ==
    /\ run.prog \in Programs
    /\ run.entry \in Scripts(run.prog)
    /\ \A i \in 1..Len(stack) : stack[i] \in Scripts(run.prog)
    /\ \A s \in DOMAIN exitCode : exitCode[s] \in {0, 1, 2}
    /\ DOMAIN exitCode \subseteq DOMAIN startedBy
    /\ critical \subseteq Scripts(run.prog)
    /\ ownLog \subseteq worked
    /\ mailed \subseteq Attachments(run.prog)
    /\ transfers \in 0..2

\* ---------------------------------------------------------------------------
\* C12: every script exits with code 1 whenever it hits a critical failure (a
\* required input file is missing, a parse fails, a directory change fails),
\* and exits with code 0 only when no such failure occurred during its run.
C12_CriticalFailureExitsOne ==
    \A s \in DOMAIN exitCode :
        /\ s \in critical => exitCode[s] = 1
        /\ exitCode[s] = 0 => s \notin critical

\* ---------------------------------------------------------------------------
\* C13: if any stage of a chain fails, the failure shows in the exit code of
\* the top-level process: a parent script never exits 0 after a script it
\* started exited non-zero.
C13_ChildFailureSurfaces ==
    /\ \A p \in DOMAIN exitCode : \A c \in DOMAIN exitCode :
          (startedBy[c] = p /\ exitCode[c] # 0) => exitCode[p] # 0
    /\ (RunOver /\ \E s \in DOMAIN exitCode : exitCode[s] # 0) => exitCode[run.entry] # 0

\* ---------------------------------------------------------------------------
\* C14: any FTP/SFTP transfer error (a failed listing, a failed download, or a
\* listed file that is missing or empty after the download) is fatal: the
\* transfer is not retried, no later processing or email stage of that run is
\* started, and the process exits 1.
TransferErrors == {"list_error", "fetch_error", "some_missing", "all_missing"}

C14_TransferErrorFatal ==
    \A f \in Fetchers(run.prog) :
        (f \in worked /\ \E k \in TransferErrors : Struck(f, k)) =>
            /\ transfers = 1
            /\ \A c \in DOMAIN startedBy : startedBy[c] # f
            /\ f \in DOMAIN exitCode => exitCode[f] = 1

\* ---------------------------------------------------------------------------
\* C15: when an expected table or an expected placeholder paragraph is not
\* found in the Word template, the document stage logs a critical error and
\* exits 1, without saving a bulletin and without starting the send stage.
C15_StructureErrorAborts ==
    LET s == "7-create_word.py" IN
    (s \in worked /\ (Struck(s, "no_table") \/ Struck(s, "no_paragraph"))) =>
        /\ s \in critical
        /\ "Bulletin.docx" \notin docs
        /\ "8-send_MSG.py" \notin DOMAIN startedBy
        /\ s \in DOMAIN exitCode => exitCode[s] = 1

\* ---------------------------------------------------------------------------
\* C16: when no shared log file path is supplied, only the first script of a
\* chain creates its own log file and continues; every downstream script of
\* the chain terminates with exit code 1 before doing any work.
StartedWithoutLog(e) ==
    /\ run.entry = e
    /\ ~run.logArg
    /\ e \in worked \/ e \in DOMAIN exitCode

OwnLogWithoutPath(prog) ==
    IF prog = "BMSLA" THEN {"1-get_arpege.py", "8-send_MSG.py"}
    ELSE IF prog = "Sonelgaz" THEN {"1-get_arpege.py", "1-get-aladin.py"}
    ELSE IF prog = "BQCP24h"
    THEN {"Bulletin.py", "csvtoxlsx.py", "Synop24h.py", "SynoClim.py", "send_MSG.py"}
    ELSE {"BQRM_ref.py"}

\* the scripts that check the path themselves and call sys.exit(1)
ExitOneWithoutPath(prog) ==
    IF prog = "BMSLA"
    THEN {"3-create_forecast_table.py", "5-traitement_obs_min_max.py", "6-create_tables.py",
          "7-create_word.py"}
    ELSE {}

SendRan(s) ==
    /\ run.prog \in {"BMSLA", "Sonelgaz", "BQCP24h"}
    /\ s \in Senders(run.prog)
    /\ s \in worked
    /\ s \in DOMAIN exitCode

C17_MissingAttachmentSkipsSend ==
    \A s \in Senders(run.prog) :
        SendRan(s) =>
            /\ mailed \subseteq Present(s)
            /\ ~(Attachments(run.prog) \subseteq Present(s)) => mailed = {}

\* C17, amended: an email never carries an attachment that is missing at send
\* time. The 8-send_MSG.py of BMSLA and of Sonelgaz send nothing when the
\* bulletin is missing and log a critical error, BMSLA with exit code 1 and
\* Sonelgaz with exit code 0. The send_MSG.py of BQCP24h drops the missing
\* ones of its two attachments and emails those that exist; it sends nothing,
\* logs a critical error and exits 1 only when both are missing.
C17_MailOnlyWhatExists ==
    \A s \in Senders(run.prog) :
        SendRan(s) =>
            LET found == Present(s) \cap Attachments(run.prog) IN
            /\ mailed \subseteq found
            /\ found = {} =>
                  /\ mailed = {}
                  /\ s \in critical
                  /\ exitCode[s] = IF run.prog = "Sonelgaz" THEN 0 ELSE 1
            /\ (found # {} /\ ~Struck(s, "smtp_fail")) =>
                  /\ mailed = found
                  /\ exitCode[s] = 0

\* C17, the case: one of the two attachments of BQCP24h was missing at send
\* time and the email left with the other one
C17_Witness ==
    /\ SendRan("send_MSG.py")
    /\ run.prog = "BQCP24h"
    /\ "Cumul_table.docx" \notin Present("send_MSG.py")
    /\ mailed = {"SynopClim_precip_table.docx"}

\* ---------------------------------------------------------------------------
\* 3-create_forecast_table.py: minimum and maximum over the lead times

\* the most lead times a sample matrix holds
MaxLead == 2

\* the stations of the station file
MinMaxStations == {"A", "B"}

\* what the GRIB reader hands back for one station and one lead time, in
\* tenths of a degree
SampleValues == {NaN, Num(-12), Num(96), Num(200)}

\* the samples of the lead times, one list over the stations per lead time
SampleMatrices ==
    UNION {[1..n -> [MinMaxStations -> SampleValues]] : n \in 0..MaxLead}

\* the values of a station that are not missing
PresentSamples(all_times, st) ==
    {all_times[i][st].v : i \in {j \in 1..Len(all_times) : all_times[j][st].k = "num"}}

\* numpy.nanmin over the lead times of one station
NanMin(all_times, st) ==
    LET vs == PresentSamples(all_times, st)
    IN  IF vs = {} THEN NaN ELSE Num(CHOOSE m \in vs : \A x \in vs : m <= x)

\* numpy.nanmax over the lead times of one station
NanMax(all_times, st) ==
    LET vs == PresentSamples(all_times, st)
    IN  IF vs = {} THEN NaN ELSE Num(CHOOSE m \in vs : \A x \in vs : m >= x)

\* pytaps.numpy_utils.calculate_nan_min_max
calculate_nan_min_max(all_times) ==
    [min |-> [st \in MinMaxStations |-> NanMin(all_times, st)],
     max |-> [st \in MinMaxStations |-> NanMax(all_times, st)]]

\* a reduction over no lead time at all may raise
MayRaise(all_times) == IF all_times = <<>> THEN BOOLEAN ELSE {FALSE}

\* the try block of the 24-48h period copied over: only the maximum is taken
MinMax_0_24hMaxOnly(all_times, raised) ==
    LET nans == [st \in MinMaxStations |-> NaN]
        r == calculate_nan_min_max(all_times)
    IN  IF raised
        THEN [min |-> nans, max |-> nans, error |-> TRUE]
        ELSE [min |-> nans, max |-> r.max, error |-> FALSE]

\* t2m_min_0_24h = [np.nan] * len(stations); try: ... tolist(); except: log
MinMax_0_24h(all_times, raised) ==
    LET nans == [st \in MinMaxStations |-> NaN]
        r == calculate_nan_min_max(all_times)
    IN  IF raised
        THEN [min |-> nans, max |-> nans, error |-> TRUE]
        ELSE [min |-> r.min, max |-> r.max, error |-> FALSE]

InitMinMax ==
    /\ IdleTables /\ IdleChain /\ IdleCumul /\ IdleRest
    /\ t2m_all_times_0_24h \in SampleMatrices
    /\ t2m_min_0_24h = <<>>
    /\ t2m_max_0_24h = <<>>
    /\ minmax_error = FALSE

\* BMSLA/scr/3-create_forecast_table.py, "Calculation of Min/Max for 0-24h"
CalculateMinMax ==
    /\ t2m_min_0_24h = <<>>
    /\ \E raised \in MayRaise(t2m_all_times_0_24h) :
          LET r == MinMax_0_24h(t2m_all_times_0_24h, raised)
          IN  /\ t2m_min_0_24h' = r.min
              /\ t2m_max_0_24h' = r.max
              /\ minmax_error' = r.error
    /\ UNCHANGED <<t2m_all_times_0_24h, tableVars, chainVars, cumulVars, restVars>>

NextMinMax == CalculateMinMax

SpecMinMax == InitMinMax /\ [][NextMinMax]_vars

\* C18: for each station, the forecast min and max computed over its
\* lead-time samples are both non-missing whenever at least one sample is
\* non-missing, and both are missing (with no error raised and no exit) when
\* all of its samples are missing.
C18_MinMaxMissingOnlyWhenAllMissing ==
    t2m_min_0_24h # <<>> =>
        /\ DOMAIN t2m_min_0_24h = MinMaxStations
        /\ DOMAIN t2m_max_0_24h = MinMaxStations
        /\ t2m_all_times_0_24h # <<>> => ~minmax_error
        /\ \A st \in MinMaxStations :
              IF \E i \in 1..Len(t2m_all_times_0_24h) : t2m_all_times_0_24h[i][st] # NaN
              THEN /\ t2m_min_0_24h[st].k = "num"
                   /\ t2m_max_0_24h[st].k = "num"
                   /\ t2m_min_0_24h[st].v <= t2m_max_0_24h[st].v
              ELSE /\ t2m_min_0_24h[st] = NaN
                   /\ t2m_max_0_24h[st] = NaN

\* C18, the case: one station has a missing and a present sample, the other
\* has only missing samples, and the reduction has run
C18_Witness ==
    /\ t2m_min_0_24h # <<>>
    /\ Len(t2m_all_times_0_24h) = 2
    /\ t2m_all_times_0_24h[1]["A"] = NaN
    /\ t2m_all_times_0_24h[2]["A"] = Num(96)
    /\ \A i \in 1..2 : t2m_all_times_0_24h[i]["B"] = NaN
    /\ t2m_min_0_24h["A"] = Num(96)
    /\ t2m_max_0_24h["A"] = Num(96)
    /\ t2m_min_0_24h["B"] = NaN
    /\ t2m_max_0_24h["B"] = NaN
    /\ ~minmax_error

\* ---------------------------------------------------------------------------
\* C19: every numeric forecast and observation value is rounded to the nearest
\* integer (not truncated: 9.6 is shown as 10), and the rounding is done
\* before missing values are replaced by "/".
CellsOf(df) == {df.rows[i].vals[c] : i \in 1..Len(df.rows), c \in df.cols}

Distance(a, b) == IF a >= b THEN a - b ELSE b - a

\* every number of the table is a whole degree
Integral(df) == \A x \in CellsOf(df) : x.k = "num" => x.v % 10 = 0

\* every number of the table is a nearest whole degree of a value of the file
NearestOf(df, csv) ==
    \A x \in CellsOf(df) :
        x.k = "num" =>
            \E y \in CellsOf(csv.df) : y.k = "num" /\ 2 * Distance(x.v, y.v) <= 10

C19_RoundedBeforeFill ==
    /\ Integral(t_demain_arp) /\ NearestOf(t_demain_arp, arpege_csv)
    /\ Integral(t_obs) /\ NearestOf(t_obs, obs_csv)
    /\ Integral(t_obs_minmax) /\ NearestOf(t_obs_minmax, minmax_csv)
    /\ \A t \in {t_demain_arp, t_obs, t_obs_minmax} : Slash \notin CellsOf(t)
    /\ Integral(full_table)
    /\ CellsOf(full_table) \subseteq
           CellsOf(t_demain_arp) \cup CellsOf(t_obs) \cup CellsOf(t_obs_minmax) \cup {Slash}
    /\ \A f \in XlsxFiles : xlsx[f].exists => Integral(xlsx[f].df)

\* C19, the case: the forecast minimum of 9.6 degrees is in the merged table
\* as 10, next to a "/" that was put in after the rounding
C19_Witness ==
    /\ Num(96) \in CellsOf(arpege_csv.df)
    /\ \E i \in 1..Len(full_table.rows) :
          /\ full_table.rows[i].Station = "C"
          /\ full_table.rows[i].vals["prev_min"] = Num(100)
          /\ Slash \in {full_table.rows[i].vals[c] : c \in full_table.cols}

\* ---------------------------------------------------------------------------
\* BQCP24h: the cumulative precipitation workbook over the runs

\* the largest cumulative value a run starts from, in millimetres
MaxCumul == 3

\* the stations of the rows of templates/agricole.xlsx
CumulStations == {"A", "B"}

\* a station without a row in the decoded BUFR of the run
NoReport == [k |-> "none", v |-> 0]

\* the 24-hour amounts of the decoded BUFR, in millimetres
PrecipAmounts == {0, 1}

\* df_24h_precip: per station its amount, or no row
PrecipFrames == [CumulStations -> {NoReport} \cup {Num(p) : p \in PrecipAmounts}]

Absent == [exists |-> FALSE, vals |-> <<>>]

Workbook(vals) == [exists |-> TRUE, vals |-> vals]

\* templates/agricole.xlsx as installed, before any run
PristineTemplate == Workbook([st \in CumulStations |-> 0])

\* the reset of 1 September and process_cumulative_column with the stored
\* cell ignored: every run starts from 0
UpdateCumulFresh(template, reset, precip) ==
    [st \in CumulStations |->
        IF precip[st].k = "num" THEN precip[st].v ELSE 0]

\* the reset of 1 September, then process_cumulative_column on every row:
\* new_cumul = current_cumul_numeric + precip_value, a station that is not
\* in the BUFR data keeps its value
UpdateCumul(template, reset, precip) ==
    [st \in CumulStations |->
        LET current == IF reset THEN 0 ELSE template.vals[st]
        IN  IF precip[st].k = "num" THEN current + precip[st].v ELSE current]

InitCumul ==
    /\ IdleTables /\ IdleChain /\ IdleMinMax /\ IdleRest
    /\ agricole_template \in {PristineTemplate, Absent}
    /\ agricole_out = Absent
    /\ df_24h_precip \in PrecipFrames
    /\ reset_cumul \in BOOLEAN
    /\ cumul_pc = "Synop24h"

OtherThanCumul == <<tableVars, chainVars, minmaxVars, restVars>>

\* load_excel_workbook(xlsx_agri_template_path) ... wb_agri.save(output_xlsx_agri_path)
SaveCumul ==
    IF agricole_template.exists
    THEN agricole_out' = Workbook(UpdateCumul(agricole_template, reset_cumul, df_24h_precip))
    ELSE UNCHANGED agricole_out

\* BQCP24h/Synop24h.py, run by Bulletin.py in the morning
Synop24h ==
    /\ cumul_pc = "Synop24h"
    /\ SaveCumul
    /\ cumul_pc' = "bufr18"
    /\ UNCHANGED <<agricole_template, df_24h_precip, reset_cumul, OtherThanCumul>>

\* BQCP24h/Synop24h18.py, run by Bulletin18.py in the evening
Synop24h18 ==
    /\ cumul_pc = "Synop24h18"
    /\ SaveCumul
    /\ cumul_pc' = "move"
    /\ UNCHANGED <<agricole_template, df_24h_precip, reset_cumul, OtherThanCumul>>

\* BQCP24h/Bulletin18.py: the old template is removed, then the workbook of
\* the run is renamed to templates/agricole.xlsx
Bulletin18Move ==
    /\ cumul_pc = "move"
    /\ agricole_template' = agricole_out
    /\ agricole_out' = Absent
    /\ cumul_pc' = "bufr06"
    /\ UNCHANGED <<df_24h_precip, reset_cumul, OtherThanCumul>>

\* the BUFR file of the next run arrives
NewBufr ==
    /\ cumul_pc \in {"bufr06", "bufr18"}
    /\ agricole_template.exists =>
          \A st \in CumulStations : \A p \in PrecipAmounts :
              agricole_template.vals[st] + p <= MaxCumul
    /\ df_24h_precip' \in PrecipFrames
    /\ reset_cumul' \in BOOLEAN
    /\ cumul_pc' = IF cumul_pc = "bufr06" THEN "Synop24h" ELSE "Synop24h18"
    /\ UNCHANGED <<agricole_template, agricole_out, OtherThanCumul>>

NextCumul ==
    \/ Synop24h
    \/ Synop24h18
    \/ Bulletin18Move
    \/ NewBufr

SpecCumul == InitCumul /\ [][NextCumul]_vars

\* the cumulative update of a run has written its workbook
CumulWritten == cumul_pc \in {"bufr18", "move"} /\ agricole_out.exists

MaxDays == 3

TmpStages == <<"1-get_arpege.py", "2-conv.py", "3-create_forecast_table.py",
               "4-traitement_obs.py", "5-traitement_obs_min_max.py",
               "6-create_tables.py", "7-create_word.py", "8-send_MSG.py">>

StageNo(s) == CHOOSE i \in DOMAIN TmpStages : TmpStages[i] = s

AfterStage(s) == TmpStages[StageNo(s) + 1]

\* W_fr-meteofrance,MODEL,ARPEGE...{date}0000--.grib2 of a day in tmp/
Grib2(day) == <<day, "grib2">>

\* 2t_{date}.grib of a day in tmp/
Grib2t(day) == <<day, "2t">>

\* pytaps.file_operations.clean_directory(tmp, file_pattern=None): the files
\* left in the directory
clean_directory(files) == {}

\* the call of the Sonelgaz 7-create_word.py taken as live
CleansTmpBoth(chain, s) ==
    s \in {"7-create_word.py", "8-send_MSG.py"}

\* the scripts that call clean_directory on tmp/: the call of the Sonelgaz
\* 7-create_word.py is commented out
CleansTmp(chain, s) ==
    \/ chain = "BMSLA" /\ s = "7-create_word.py"
    \/ s = "8-send_MSG.py"

InitTmp ==
    /\ IdleTables /\ IdleChain /\ IdleMinMax /\ IdleCumul /\ IdleAlias /\ IdleRegions /\ IdleSeason
    /\ IdleFetch
    /\ tmp_chain \in {"BMSLA", "Sonelgaz"}
    /\ tmp_day = 1
    /\ tmp_pc = "1-get_arpege.py"
    /\ tmp_exit = "running"
    /\ tmp_cleaned = FALSE
    /\ tmp_files = {}

OtherThanTmp == <<tableVars, chainVars, minmaxVars, cumulVars, aliasVars, regVars, seasonVars,
    fetchVars>>

TmpAt(s) == tmp_exit = "running" /\ tmp_pc = s

\* sys.exit(1): the scripts that started this one exit 1 in their turn
TmpCrash == tmp_exit' = "crashed" /\ UNCHANGED tmp_pc

TmpGoOn == tmp_pc' = AfterStage(tmp_pc) /\ UNCHANGED tmp_exit

\* 1-get_arpege.py: the files of the day are fetched into tmp/, or nothing
\* is and the script exits 1
TmpGetArpege ==
    /\ TmpAt("1-get_arpege.py")
    /\ \/ tmp_files' = tmp_files \cup {Grib2(tmp_day)} /\ TmpGoOn
       \/ UNCHANGED tmp_files /\ TmpCrash
    /\ UNCHANGED <<tmp_chain, tmp_day, tmp_cleaned, OtherThanTmp>>

\* 2-conv.py: tmp/2t_{date}.grib is extracted from the files of the day, or
\* the extraction raises and the script exits 1
TmpConv ==
    /\ TmpAt("2-conv.py")
    /\ IF Grib2(tmp_day) \in tmp_files
       THEN \/ tmp_files' = tmp_files \cup {Grib2t(tmp_day)} /\ TmpGoOn
            \/ UNCHANGED tmp_files /\ TmpCrash
       ELSE UNCHANGED tmp_files /\ TmpCrash
    /\ UNCHANGED <<tmp_chain, tmp_day, tmp_cleaned, OtherThanTmp>>

\* 3-create_forecast_table.py to 6-create_tables.py: tmp/ is read only
TmpTables ==
    /\ \E s \in {"3-create_forecast_table.py", "4-traitement_obs.py",
                 "5-traitement_obs_min_max.py", "6-create_tables.py"} : TmpAt(s)
    /\ \/ TmpGoOn
       \/ TmpCrash
    /\ UNCHANGED <<tmp_chain, tmp_day, tmp_cleaned, tmp_files, OtherThanTmp>>

\* 7-create_word.py: the dates are prepared, tmp/ is cleaned (BMSLA only),
\* then the document is built and saved; either of the two can exit 1
TmpCreateWord ==
    /\ TmpAt("7-create_word.py")
    /\ \/ TmpCrash /\ UNCHANGED <<tmp_files, tmp_cleaned>>
       \/ /\ IF CleansTmp(tmp_chain, tmp_pc)
             THEN tmp_files' = clean_directory(tmp_files) /\ tmp_cleaned' = TRUE
             ELSE UNCHANGED <<tmp_files, tmp_cleaned>>
          /\ \/ TmpGoOn
             \/ TmpCrash
    /\ UNCHANGED <<tmp_chain, tmp_day, OtherThanTmp>>

\* 8-send_MSG.py: BMSLA exits 1 before the cleanup when the bulletin is
\* missing or the send fails; Sonelgaz logs either and cleans up
TmpSendMsg ==
    /\ TmpAt("8-send_MSG.py")
    /\ \/ tmp_chain = "BMSLA" /\ TmpCrash /\ UNCHANGED <<tmp_files, tmp_cleaned>>
       \/ /\ IF CleansTmp(tmp_chain, tmp_pc)
             THEN tmp_files' = clean_directory(tmp_files) /\ tmp_cleaned' = TRUE
             ELSE UNCHANGED <<tmp_files, tmp_cleaned>>
          /\ tmp_exit' = "finished"
          /\ UNCHANGED tmp_pc
    /\ UNCHANGED <<tmp_chain, tmp_day, OtherThanTmp>>

\* the chain is started again the next day
TmpNextDay ==
    /\ tmp_exit \in {"crashed", "finished"}
    /\ tmp_day < MaxDays
    /\ tmp_day' = tmp_day + 1
    /\ tmp_pc' = "1-get_arpege.py"
    /\ tmp_exit' = "running"
    /\ tmp_cleaned' = FALSE
    /\ UNCHANGED <<tmp_chain, tmp_files, OtherThanTmp>>

NextTmp ==
    \/ TmpGetArpege
    \/ TmpConv
    \/ TmpTables
    \/ TmpCreateWord
    \/ TmpSendMsg
    \/ TmpNextDay

SpecTmp == InitTmp /\ [][NextTmp]_vars

\* the run of the day fetched its files
FetchedToday == StageNo(tmp_pc) > 1

\* the run is in the last script of the chain or finished it
AtEndOfChain == tmp_pc = "8-send_MSG.py" /\ tmp_exit = "finished"

MaxColumn == 2

\* BMSLA/scr/6-create_tables.py, station_mapping as written
station_mapping_6_BMSLA ==
    "M'SILA" :> "MSILA" @@ "EL BAYADH" :> "EL-BAYADH"
    @@ "OULED DJELLAL" :> "OULED-DJELLAL" @@ "EL M'GHAIR" :> "EL-MGHAIR"
    @@ "EL OUED" :> "EL-OUED" @@ "EL MENIAA" :> "EL-GOLEA"
    @@ "BENI ABBES" :> "BENI-ABBES" @@ "IN SALAH" :> "IN-SALAH"
    @@ "BORDJ BADJI MOKHTARI" :> "B-B-MOKHTAR" @@ "IN GUEZZAM" :> "IN-GUEZZAM"

\* sonelgaz/scr/6-create_tables.py, station_mapping as written
station_mapping_6_Sonelgaz ==
    "BEJAIA-AEROPORT" :> "BEJAIA" @@ "ORAN-SENIA" :> "ORAN"
    @@ "MASCARA-GHRISS" :> "MASCARA" @@ "TLEMCEN-ZENATA" :> "TLEMCEN"
    @@ "JIJEL-ACHOUAT" :> "JIJEL" @@ "M'SILA" :> "MSILA"

station_mapping_6(v) ==
    IF v = "BMSLA" THEN station_mapping_6_BMSLA ELSE station_mapping_6_Sonelgaz

\* the names of stations_list (BMSLA) and of regions (Sonelgaz) the map can
\* produce, and one it cannot
CanonicalNames(v) == {station_mapping_6(v)[k] : k \in DOMAIN station_mapping_6(v)} \cup {"NAAMA"}

\* the names a BUFR file can carry: the aliases and the canonical names
BufrNames(v) == DOMAIN station_mapping_6(v) \cup CanonicalNames(v)

\* replace where a canonical name is mapped back to its alias
ReplaceColumnToggle(col, mapping) ==
    [i \in DOMAIN col |->
        IF col[i] \in DOMAIN mapping THEN mapping[col[i]]
        ELSE IF \E k \in DOMAIN mapping : mapping[k] = col[i]
             THEN CHOOSE k \in DOMAIN mapping : mapping[k] = col[i]
             ELSE col[i]]

\* obs["stationOrSiteName"].replace(station_mapping): every element that is a
\* key becomes its value, in one pass
ReplaceColumn(col, mapping) ==
    [i \in DOMAIN col |-> IF col[i] \in DOMAIN mapping THEN mapping[col[i]] ELSE col[i]]

Columns(v) == UNION {[1..n -> BufrNames(v)] : n \in 0..MaxColumn}

InitAlias ==
    /\ IdleTables /\ IdleChain /\ IdleMinMax /\ IdleCumul /\ IdleTmp /\ IdleRegions /\ IdleSeason
    /\ IdleFetch
    /\ alias_variant \in {"BMSLA", "Sonelgaz"}
    /\ alias_in \in Columns(alias_variant)
    /\ alias_col = alias_in
    /\ alias_passes = 0

OtherThanAlias == <<tableVars, chainVars, minmaxVars, cumulVars, tmpVars, regVars, seasonVars,
    fetchVars>>

\* one pass of the map over the column
ApplyStationMapping ==
    /\ alias_passes < 2
    /\ alias_col' = ReplaceColumn(alias_col, station_mapping_6(alias_variant))
    /\ alias_passes' = alias_passes + 1
    /\ UNCHANGED <<alias_variant, alias_in, OtherThanAlias>>

NextAlias == ApplyStationMapping

SpecAlias == InitAlias /\ [][NextAlias]_vars

\* C22: applying the alias map of a chain to a station column twice gives
\* the column that applying it once gives, and a name already in canonical
\* form is left as it is by the map.
C22_AliasMapIdempotent ==
    LET mapping == station_mapping_6(alias_variant)
    IN  /\ alias_passes = 2 => alias_col = ReplaceColumn(alias_in, mapping)
        /\ alias_passes >= 1 =>
              \A i \in DOMAIN alias_in :
                  /\ alias_in[i] \in CanonicalNames(alias_variant) => alias_col[i] = alias_in[i]
                  /\ alias_col[i] \in CanonicalNames(alias_variant)

\* C22, the case: a column with an alias and a canonical name after two
\* passes
C22_Witness ==
    /\ alias_passes = 2
    /\ alias_in = <<"M'SILA", "NAAMA">>
    /\ alias_col = <<"MSILA", "NAAMA">>

\* ---------------------------------------------------------------------------
\* the scripts of an orchestrator that save a document of the email
DocumentScripts(prog) == {c \in Range(Children(prog)) : Saves(prog, c) # {}}

\* C23: in the BQCP24h and BQRM orchestrators the email-sending script is
\* started only if every document-generating script that precedes it in the
\* same run completed successfully (exit code 0).
C23_SendOnlyAfterDocuments ==
    ~IsChain(run.prog) =>
        \A m \in Senders(run.prog) :
            (m \in DOMAIN startedBy /\ startedBy[m] = Orchestrator(run.prog)) =>
                \A c \in DocumentScripts(run.prog) :
                    c \in DOMAIN exitCode /\ exitCode[c] = 0

\* ---------------------------------------------------------------------------
\* sonelgaz: outputs/tab_reg/regions_{region}.xlsx over the days

\* the number of days the workbooks are followed
MaxRegDays == 2

\* the regions in the order 7-create_word.py loads their workbooks
RegionOrder == <<"Ouest", "Centre", "Est", "Sud">>

AllRegions == Range(RegionOrder)

NothingRead == [r \in AllRegions |-> 0]

InitRegions ==
    /\ IdleTables /\ IdleChain /\ IdleMinMax /\ IdleCumul /\ IdleAlias /\ IdleTmp /\ IdleSeason
    /\ IdleFetch
    /\ reg_day = 1
    /\ reg_pc = "6-create_tables.py"
    /\ reg_written = [r \in AllRegions |-> 0]
    /\ reg_read = NothingRead

OtherThanRegions == <<tableVars, chainVars, minmaxVars, cumulVars, aliasVars, tmpVars, seasonVars,
    fetchVars>>

\* 6-create_tables.py: a failure before the loop exits 1; in the loop a
\* region whose reindex or save raises is logged and skipped, its file on
\* disk stays as it was; then "All regional Excel files processed and
\* created successfully." is logged and 7-create_word.py is started
RegCreateTables ==
    /\ reg_pc = "6-create_tables.py"
    /\ \/ reg_pc' = "over" /\ UNCHANGED reg_written
       \/ \E raised \in SUBSET AllRegions :
             /\ reg_written' = [r \in AllRegions |->
                                   IF r \in raised THEN reg_written[r] ELSE reg_day]
             /\ reg_pc' = "7-create_word.py"
    /\ UNCHANGED <<reg_day, reg_read, OtherThanRegions>>

\* the workbooks load_excel_workbook has loaded when the first missing one
\* raises, all four when none is missing
Loaded ==
    {RegionOrder[i] : i \in {j \in 1..Len(RegionOrder) :
                                \A k \in 1..j : reg_written[RegionOrder[k]] # 0}}

\* 7-create_word.py: the four workbooks are loaded in turn, a missing one
\* exits 1
RegCreateWord ==
    /\ reg_pc = "7-create_word.py"
    /\ reg_read' = [r \in AllRegions |-> IF r \in Loaded THEN reg_written[r] ELSE 0]
    /\ reg_pc' = "over"
    /\ UNCHANGED <<reg_day, reg_written, OtherThanRegions>>

\* the chain is started again the next day
RegNextDay ==
    /\ reg_pc = "over"
    /\ reg_day < MaxRegDays
    /\ reg_day' = reg_day + 1
    /\ reg_pc' = "6-create_tables.py"
    /\ reg_read' = NothingRead
    /\ UNCHANGED <<reg_written, OtherThanRegions>>

NextRegions ==
    \/ RegCreateTables
    \/ RegCreateWord
    \/ RegNextDay

SpecRegions == InitRegions /\ [][NextRegions]_vars

\* C24: whenever the Sonelgaz 6-create_tables.py reports that all regional
\* Excel files were created and starts 7-create_word.py, each of the four
\* regional workbooks 7-create_word.py reads was written during this same run.
C24_WorkbooksReadAreOfThisRun ==
    \A r \in AllRegions : reg_read[r] # 0 => reg_read[r] = reg_day

\* ---------------------------------------------------------------------------
\* BQCP24h: the cumulative workbook over the days of a season, with runs that
\* are repeated or skipped

\* the number of days the workbook is followed
MaxSeasonDays == 2

\* the number of times one orchestrator is run on one day
MaxRunsPerDay == 2

Date(m, d) == [month |-> m, day |-> d]

\* the dates the days are taken from, in turn
Calendar == <<Date(1, 9), Date(8, 31), Date(9, 1), Date(9, 2)>>

DateAfter(date) ==
    LET i == CHOOSE j \in 1..Len(Calendar) : Calendar[j] = date
    IN  Calendar[(i % Len(Calendar)) + 1]

\* the reset taken on 9 January
ResetCumulDayMonth(today) == today.month = 1 /\ today.day = 9

\* reset_cumul = (today.month == 9 and today.day == 1)
ResetCumul(today) == today.month = 9 /\ today.day = 1

\* what the BUFR file of a day holds for a station at timePeriod -24: no row,
\* a missing value, a trace (coded negative), nothing, or an amount
SeasonReports == {NoReport, NaN, Num(-1), Num(0), Num(2)}

SeasonFrames == [CumulStations -> SeasonReports]

\* current_cumul_numeric + precip_value in floating point
FloatPlus(a, b) == IF a.k = "num" /\ b.k = "num" THEN Num(a.v + b.v) ELSE NaN

\* the reset loop: a cell that holds a number is set to 0
ResetCell(reset, cell) == IF reset THEN Num(0) ELSE cell

\* process_cumulative_column / _update_excel_cells(is_cumulative_update=True)
\* after the reset loop, on every row of the workbook
AccumulateSeason(template, reset, precip) ==
    [st \in CumulStations |->
        LET current == ResetCell(reset, template.vals[st])
        IN  IF precip[st] = NoReport THEN current ELSE FloatPlus(current, precip[st])]

InitSeason ==
    /\ IdleTables /\ IdleChain /\ IdleMinMax /\ IdleAlias /\ IdleTmp /\ IdleRegions
    /\ IdleFetch
    /\ season_today \in Range(Calendar)
    /\ season_day = 1
    /\ agricole_template = Workbook([st \in CumulStations |-> Num(0)])
    /\ season_start = agricole_template
    /\ agricole_out = Absent
    /\ df_24h_precip \in SeasonFrames
    /\ reset_cumul = ResetCumul(season_today)
    /\ cumul_pc = "season"
    /\ season_runs06 = 0
    /\ season_runs18 = 0
    /\ season_last = "none"

OtherThanSeason == <<tableVars, chainVars, minmaxVars, aliasVars, tmpVars, regVars,
    fetchVars>>

\* Synop24h.py and Synop24h18.py from the load of templates/agricole.xlsx to
\* the save of agricole_{MM}{DD}0600.xlsx: without the template the script
\* ends at the load
SynopOutput ==
    IF agricole_template.exists
    THEN Workbook(AccumulateSeason(agricole_template, reset_cumul, df_24h_precip))
    ELSE agricole_out

\* Bulletin.py: the children run when the FTP download and the BUFR copy
\* succeeded; the *.xlsx files are left for the evening
SeasonBulletin ==
    /\ season_runs06 < MaxRunsPerDay
    /\ season_runs06' = season_runs06 + 1
    /\ \E fetched \in BOOLEAN :
          IF fetched
          THEN /\ agricole_out' = SynopOutput
               /\ season_last' = IF agricole_template.exists THEN "Synop24h" ELSE "exit1"
          ELSE /\ UNCHANGED agricole_out
               /\ season_last' = "skipped"
    /\ UNCHANGED <<agricole_template, df_24h_precip, reset_cumul, cumul_pc, season_today,
                   season_day, season_start, season_runs18, OtherThanSeason>>

\* Bulletin18.py: Synop24h18.py runs when the BUFR copy succeeded and its
\* failure is only logged; templates/agricole.xlsx is removed; the workbook of
\* the day is renamed to it, a missing one is only logged; the remaining
\* *.xlsx files are removed
SeasonBulletin18 ==
    /\ season_runs18 < MaxRunsPerDay
    /\ season_runs18' = season_runs18 + 1
    /\ \E copied \in BOOLEAN :
          LET written == IF copied THEN SynopOutput ELSE agricole_out
          IN  /\ agricole_template' = written
              /\ agricole_out' = Absent
              /\ season_last' = IF ~copied THEN "skipped"
                                ELSE IF agricole_template.exists THEN "Synop24h18"
                                ELSE "exit1"
    /\ UNCHANGED <<df_24h_precip, reset_cumul, cumul_pc, season_today, season_day,
                   season_start, season_runs06, OtherThanSeason>>

\* the next day: a new BUFR file, a new date in the name of the workbook
SeasonNextDay ==
    /\ season_day < MaxSeasonDays
    /\ season_day' = season_day + 1
    /\ season_today' = DateAfter(season_today)
    /\ reset_cumul' = ResetCumul(season_today')
    /\ df_24h_precip' \in SeasonFrames
    /\ season_start' = agricole_template
    /\ agricole_out' = Absent
    /\ season_runs06' = 0
    /\ season_runs18' = 0
    /\ season_last' = "none"
    /\ UNCHANGED <<agricole_template, cumul_pc, OtherThanSeason>>

NextSeason ==
    \/ SeasonBulletin
    \/ SeasonBulletin18
    \/ SeasonNextDay

SpecSeason == InitSeason /\ [][NextSeason]_vars

StoredAtDayStart(st) == ResetCell(reset_cumul, season_start.vals[st])

\* the station reported an amount that is a number and not negative
ReportedAmount(st) == df_24h_precip[st].k = "num" /\ df_24h_precip[st].v >= 0

FiniteTotals(wb) == \A st \in CumulStations : wb.vals[st].k = "num"

\* no total of the workbook after is below the total of the workbook before
NotBelow(after, before) ==
    \A st \in CumulStations :
        (after.vals[st].k = "num" /\ before.vals[st].k = "num") =>
            after.vals[st].v >= before.vals[st].v

\* C29: between two resets the stored total of a station never decreases from
\* one run to the next and is always a finite number, whatever the BUFR data
\* reports for the station (negative, trace or missing): the workbook of the
\* morning against the template it was computed from, and the template
\* against the template the day began with.
C29_TotalFiniteAndNeverDecreases ==
    /\ agricole_out.exists =>
          /\ FiniteTotals(agricole_out)
          /\ (~reset_cumul /\ agricole_template.exists) =>
                NotBelow(agricole_out, agricole_template)
    /\ agricole_template.exists =>
          /\ FiniteTotals(agricole_template)
          /\ (~reset_cumul /\ season_start.exists) =>
                NotBelow(agricole_template, season_start)

\* the total stored for a station whose total was current before the run: a
\* station without a row at timePeriod -24 keeps it
AddedTo(current, report) ==
    IF report = NoReport THEN current ELSE FloatPlus(current, report)

\* the run is dated 1 September
FirstOfSeptember == season_today.month = 9 /\ season_today.day = 1

\* the workbook after is the workbook before with the report of the day
\* added, to 0 on 1 September and to the stored total on any other date, for
\* every station whose stored total is a number
ResetOnlyOnFirstOfSeptember(after, before) ==
    \A st \in CumulStations :
        before.vals[st].k = "num" =>
            after.vals[st] =
                AddedTo(IF FirstOfSeptember THEN Num(0) ELSE before.vals[st],
                        df_24h_precip[st])

ARPEGE_EXPECTED_FORECAST_STEPS ==
    <<"00H12H", "13H24H", "25H36H", "37H48H", "49H60H", "61H72H", "73H84H", "85H96H",
      "97H102H">>

\* a file name of the listing: W_fr-meteofrance,MODEL,ARPEGE+01+{sp}+{step}_C_LFPW_...
RemoteFile(sp, step) == [sp |-> sp, step |-> step]

\* the names a listing can hold: the expected steps, a step that is not
\* expected, a name the pattern of extract_forecast_step does not match
RemoteFiles ==
    {RemoteFile("SP1", s) : s \in Range(ARPEGE_EXPECTED_FORECAST_STEPS) \cup {"103H114H"}}
        \cup {RemoteFile("SP2", "00H12H")}

None == "None"

\* re.search(r'\+SP1\+(\w+H\w+H)_C_LFPW', filename)
extract_forecast_step(filename) == IF filename.sp = "SP1" THEN filename.step ELSE None

found_forecast_steps(listing) == {extract_forecast_step(f) : f \in listing} \ {None}

missing_forecast_steps(listing) ==
    Range(ARPEGE_EXPECTED_FORECAST_STEPS) \ found_forecast_steps(listing)

\* ALADIN only when the listing is empty
should_run_aladin_when_empty(listing) == listing = {}

\* if not matching_remote_files ... elif missing_forecast_steps ... else
should_run_aladin(listing) ==
    \/ listing = {}
    \/ missing_forecast_steps(listing) # {}

InitFetch ==
    /\ IdleTables /\ IdleChain /\ IdleMinMax /\ IdleCumul /\ IdleAlias /\ IdleTmp
    /\ IdleRegions /\ IdleSeason
    /\ fetch_fault \in {"none", "list_error"}
    /\ fetch_listing \in IF fetch_fault = "none" THEN SUBSET RemoteFiles ELSE {{}}
    /\ fetch_requested = {}
    /\ fetch_ok = {}
    /\ fetch_launched = {}
    /\ fetch_exit = "running"

OtherThanFetch ==
    <<tableVars, chainVars, minmaxVars, cumulVars, aliasVars, tmpVars, regVars, seasonVars>>

\* what can be missing or empty after the download: nothing, one file, all
Losses(files) == {{}} \cup {{f} : f \in files} \cup {files}

\* 1-get_arpege.py from the listing to its exit
GetArpege ==
    /\ fetch_exit = "running"
    /\ IF fetch_fault = "list_error"
       THEN /\ fetch_exit' = "1"
            /\ UNCHANGED <<fetch_requested, fetch_ok, fetch_launched>>
       ELSE IF should_run_aladin(fetch_listing)
       THEN /\ fetch_launched' = {"1-get-aladin.py"}
            /\ fetch_exit' \in {"0", "1"}
            /\ UNCHANGED <<fetch_requested, fetch_ok>>
       ELSE /\ fetch_requested' = fetch_listing
            /\ \E lost \in Losses(fetch_listing) :
                  /\ fetch_ok' = fetch_listing \ lost
                  /\ IF lost # {}
                     THEN fetch_exit' = "1" /\ UNCHANGED fetch_launched
                     ELSE fetch_launched' = {"2-conv.py"} /\ fetch_exit' \in {"0", "1"}
    /\ UNCHANGED <<fetch_listing, fetch_fault, OtherThanFetch>>

NextFetch == GetArpege

SpecFetch == InitFetch /\ [][NextFetch]_vars

\* the listing is empty or lacks one of the nine expected steps
ListingIncomplete ==
    \/ fetch_listing = {}
    \/ \E s \in Range(ARPEGE_EXPECTED_FORECAST_STEPS) :
          RemoteFile("SP1", s) \notin fetch_listing

FetchOver == fetch_exit # "running"

----------------------------------------------------------------------------
(* One of the two tmin / tmax sources *)

\* the reports of BUFR file c that carry a value under a name of the station
\* list the observation stage merges into
ListedReports(c) ==
    {i \in 1..Len(bufr[c].rows) :
        /\ bufr[c].rows[i].Station \in Range(stations_list(variant))
        /\ bufr[c].rows[i].v.k = "num"}

\* the workbook 6-create_tables.py writes the row of station s to
TableOf(s) == CHOOSE f \in Workbooks(variant) : s \in Range(ListOf(f))

\* the written table of station s has the value x in column col of its row
ShownInTable(s, col, x) ==
    /\ xlsx[TableOf(s)].exists
    /\ \E i \in 1..Len(xlsx[TableOf(s)].df.rows) :
          /\ xlsx[TableOf(s)].df.rows[i].Station = s
          /\ xlsx[TableOf(s)].df.rows[i].vals[col] = x

\* C28: when exactly one of the tmin / tmax BUFR files is available, every
\* value it reports for a listed station is, rounded, in the column of that
\* source in the station's row of the final table, and not "/".
C28_AvailableSourceShown ==
    (TablesStageRan /\ PartialMinMax /\ RestOK) =>
        \A c \in {"tmin", "tmax"} : \A i \in ListedReports(c) :
            ShownInTable(Replace(station_mapping(variant), bufr[c].rows[i].Station),
                         minmax_rename[c], RoundCell(bufr[c].rows[i].v))

====
